---------------------------- MODULE Spec2Model ----------------------------
(***************************************************************************)
(* A model of the ROFL replay decoder (lolrofl): the bit-flag section      *)
(* decoder and its iterator, the segment header decoder, the segment       *)
(* header iterator with its decrypt -> depad -> decompress pipeline, and   *)
(* the Rofl loader.                                                        *)
(*                                                                         *)
(* Bytes are naturals in 0..255, slices are sequences of bytes (1-based    *)
(* here, 0-based in the source: source offset k is position k+1).          *)
(* Option<T> is a sequence of length 0 (None) or 1 (Some).                 *)
(***************************************************************************)
EXTENDS Naturals, Sequences, FiniteSets, TLC

VARIABLES
    sit,        \* iter::SegmentIterator: data, index, last_error, last_type
    shist,      \* what the caller of the section iterator has observed
    seg,        \* a segment header record and what Segment::from_slice made of it
    cin,        \* an encrypted buffer and what the two decrypt functions made of it
    pit,        \* iter::PayloadIterator: data, index, segment_count, last_error,
                \* key, parse_data
    phist,      \* what the caller of the segment header iterator has observed
    rofl,       \* Rofl: head, metadata, payload, chunks, keyframes, data, cipher
    rhist,      \* what the caller of Rofl has observed
    dec         \* a buffer and what one of the decoders made of it

vars == <<sit, shist, seg, cin, pit, phist, rofl, rhist, dec>>

\* the value of the variables of a component that is not running
Idle == "idle"

sectionVars == <<sit, shist>>
payloadVars == <<pit, phist>>
roflVars == <<rofl, rhist>>

SectionIdle == sit = Idle /\ shist = Idle
SegmentIdle == seg = Idle
CipherIdle == cin = Idle
PayloadIdle == pit = Idle /\ phist = Idle
RoflIdle == rofl = Idle /\ rhist = Idle
DecodeIdle == dec = Idle

-----------------------------------------------------------------------------
(* Option and Result values *)

None == <<>>
Some(v) == <<v>>
IsSome(o) == o # <<>>
IsNone(o) == o = <<>>
Unwrap(o) == o[1]

Ok(v) == [tag |-> "Ok", val |-> v, err |-> "-"]
Err(e) == [tag |-> "Err", val |-> <<>>, err |-> e]
Panic(why) == [tag |-> "Panic", val |-> <<>>, err |-> why]
IsOk(r) == r.tag = "Ok"
IsErr(r) == r.tag = "Err"
IsPanic(r) == r.tag = "Panic"

-----------------------------------------------------------------------------
(* Slices and little-endian reads (byteorder::LittleEndian) *)

\* &s[from..] with a 0-based offset
SliceFrom(s, from) == SubSeq(s, from + 1, Len(s))
\* &s[from..to] with 0-based offsets, to exclusive
Slice(s, from, to) == SubSeq(s, from + 1, to)

\* LittleEndian::read_uN(&s[off..]) for N = 8 * width
RECURSIVE ReadLE(_, _, _)
ReadLE(s, off, width) ==
    IF width = 0 THEN 0
    ELSE s[off + 1] + 256 * ReadLE(s, off + 1, width - 1)

\* the little-endian bytes of v on width bytes (fixture builder)
RECURSIVE WriteLE(_, _)
WriteLE(v, width) ==
    IF width = 0 THEN <<>>
    ELSE <<v % 256>> \o WriteLE(v \div 256, width - 1)

\* marker & flag != 0, for a one-bit flag
HasFlag(marker, flag) == (marker \div flag) % 2 = 1

-----------------------------------------------------------------------------
(* model/section/generic.rs: GenericSection *)

TIME_BYTE == 128
TYPE_BYTE == 64
BPARAM_BYTE == 32
LENGTH_BYTE == 16

length_offset(marker) == 1 + (IF HasFlag(marker, TIME_BYTE) THEN 1 ELSE 4)
\* a variant of type_offset that takes the length field to be 4 bytes wide
type_offset_WideLength(marker) == length_offset(marker) + 4

type_offset(marker) ==
    length_offset(marker) + (IF HasFlag(marker, LENGTH_BYTE) THEN 1 ELSE 4)
\* a variant of core_len that leaves the parameter field out
core_len_NoParam(marker) ==
    type_offset(marker) + (IF HasFlag(marker, TYPE_BYTE) THEN 0 ELSE 2)

core_len(marker) ==
    type_offset(marker)
    + (IF HasFlag(marker, TYPE_BYTE) THEN 0 ELSE 2)
    + (IF HasFlag(marker, BPARAM_BYTE) THEN 1 ELSE 4)

\* the mutant of C1: an absent last type defaults to type 0
GenericSection_from_slice_DefaultType(slice, last_datatype) ==
    IF Len(slice) = 0 THEN Err("NoData")
    ELSE LET marker == slice[1] IN
      IF Len(slice) < core_len(marker) THEN Err("BufferTooSmall")
      ELSE LET data_len ==
                 IF HasFlag(marker, LENGTH_BYTE)
                 THEN slice[length_offset(marker) + 1]
                 ELSE ReadLE(slice, length_offset(marker), 4)
           IN
        IF Len(slice) < core_len(marker) + data_len THEN Err("BufferTooSmall")
        ELSE Ok([core_len |-> core_len(marker),
                 data |-> Slice(slice, 0, core_len(marker) + data_len),
                 data_type |->
                     IF HasFlag(marker, TYPE_BYTE)
                     THEN (IF IsNone(last_datatype) THEN 0
                           ELSE Unwrap(last_datatype))
                     ELSE ReadLE(slice, type_offset(marker), 2)])

\* a variant of from_slice that keeps the whole slice as the section's data
GenericSection_from_slice_WholeSlice(slice, last_datatype) ==
    IF Len(slice) = 0 THEN Err("NoData")
    ELSE LET marker == slice[1] IN
      IF Len(slice) < core_len(marker) THEN Err("BufferTooSmall")
      ELSE LET data_len ==
                 IF HasFlag(marker, LENGTH_BYTE)
                 THEN slice[length_offset(marker) + 1]
                 ELSE ReadLE(slice, length_offset(marker), 4)
           IN
        IF Len(slice) < core_len(marker) + data_len THEN Err("BufferTooSmall")
        ELSE IF HasFlag(marker, TYPE_BYTE) /\ IsNone(last_datatype)
        THEN Err("NoData")
        ELSE Ok([core_len |-> core_len(marker),
                 data |-> slice,
                 data_type |->
                     IF HasFlag(marker, TYPE_BYTE)
                     THEN Unwrap(last_datatype)
                     ELSE ReadLE(slice, type_offset(marker), 2)])

\* GenericSection::from_slice(slice, last_datatype)
GenericSection_from_slice(slice, last_datatype) ==
    IF Len(slice) = 0 THEN Err("NoData")
    ELSE LET marker == slice[1] IN
      IF Len(slice) < core_len(marker) THEN Err("BufferTooSmall")
      ELSE LET data_len ==
                 IF HasFlag(marker, LENGTH_BYTE)
                 THEN slice[length_offset(marker) + 1]
                 ELSE ReadLE(slice, length_offset(marker), 4)
           IN
        IF Len(slice) < core_len(marker) + data_len THEN Err("BufferTooSmall")
        ELSE IF HasFlag(marker, TYPE_BYTE) /\ IsNone(last_datatype)
        THEN Err("NoData")
        ELSE Ok([core_len |-> core_len(marker),
                 data |-> Slice(slice, 0, core_len(marker) + data_len),
                 data_type |->
                     IF HasFlag(marker, TYPE_BYTE)
                     THEN Unwrap(last_datatype)
                     ELSE ReadLE(slice, type_offset(marker), 2)])

\* SectionCore for GenericSection
section_data_len(f) == Len(f.data) - f.core_len
section_len(f) == f.core_len + section_data_len(f)

-----------------------------------------------------------------------------
(* segments.rs: GenericDataSegment, the legacy per-marker decoder *)

\* GenericDataSegment::buffer_to_generic(slice, size_offset, size_len, core_size)
buffer_to_generic(slice, size_offset, size_len, core_size) ==
    IF Len(slice) < core_size THEN Err("BufferTooSmall")
    ELSE IF size_len \notin {0, 1, 2} THEN Panic("Unsupported size length")
    ELSE LET data_len == IF size_len = 0 THEN 0
                         ELSE ReadLE(slice, size_offset, size_len)
         IN IF Len(slice) < core_size + data_len THEN Err("BufferTooSmall")
            ELSE Ok([core_len |-> core_size,
                     data |-> Slice(slice, 0, core_size + data_len)])

\* the match of GenericDataSegment::from_slice: size_offset, size_len and
\* core_size of each marker of the table
LegacyDispatch(marker) ==
    CASE marker \in {1, 2} -> Some(<<5, 2, 15>>)
      [] marker = 17 -> Some(<<5, 1, 12>>)
      [] marker = 32 -> Some(<<4, 1, 12>>)
      [] marker = 33 -> Some(<<5, 2, 12>>)
      [] marker \in {49, 50} -> Some(<<5, 1, 9>>)
      [] marker = 81 -> Some(<<5, 1, 10>>)
      [] marker = 113 -> Some(<<5, 1, 7>>)
      [] marker \in {129, 130} -> Some(<<2, 2, 12>>)
      [] marker \in {145, 146, 147} -> Some(<<2, 1, 9>>)
      [] marker = 149 -> Some(<<4, 1, 13>>)
      [] marker \in {161, 162} -> Some(<<2, 2, 9>>)
      [] marker \in {177, 178, 179} -> Some(<<2, 1, 6>>)
      [] marker = 193 -> Some(<<2, 2, 10>>)
      [] marker = 209 -> Some(<<2, 1, 7>>)
      [] marker \in {225, 226} -> Some(<<2, 2, 7>>)
      [] marker \in {241, 242} -> Some(<<2, 1, 4>>)
      [] OTHER -> None

\* GenericDataSegment::from_slice(slice)
GenericDataSegment_from_slice(slice) ==
    IF Len(slice) = 0 THEN Err("NoData")
    ELSE IF IsNone(LegacyDispatch(slice[1])) THEN Err("InvalidBuffer")
    ELSE buffer_to_generic(slice, Unwrap(LegacyDispatch(slice[1]))[1],
                           Unwrap(LegacyDispatch(slice[1]))[2],
                           Unwrap(LegacyDispatch(slice[1]))[3])

-----------------------------------------------------------------------------
(* iter/segment.rs: SegmentIterator, the section iterator *)

SegmentIterator_new(data) ==
    [data |-> data, index |-> 0, last_error |-> None, last_type |-> None]

SegIter_is_valid(it) == IsNone(it.last_error)
SegIter_error(it) == Unwrap(it.last_error)
SegIter_internal_index(it) == it.index

\* a variant of the closure that leaves the cursor where it is
SegIterOnOk_Stay(it, f) == [it EXCEPT !.last_type = Some(f.data_type)]

\* a variant of the closure that moves the cursor past the core header only
SegIterOnOk_CoreOnly(it, f) ==
    [it EXCEPT !.index = it.index + f.core_len,
               !.last_type = Some(f.data_type)]

\* the and_then closure of next(): a decoded section moves the cursor
SegIterOnOk(it, f) ==
    [it EXCEPT !.index = it.index + section_len(f),
               !.last_type = Some(f.data_type)]

\* the mutant of C2: the substitute error of the closure is what is recorded
SegIterOnErr_Substitute(it, e) ==
    [it EXCEPT !.last_error = Some("NoData")]

\* the mutant of C3: a failed step skips the marker byte
SegIterOnErr_Skip(it, e) ==
    [it EXCEPT !.last_error = Some(e), !.index = it.index + 1]

\* the or_else closure of next(): a decode error is recorded
SegIterOnErr(it, e) ==
    [it EXCEPT !.last_error = Some(e)]

\* what a caller can query of the iterator besides its slice
SegIterView(it) ==
    [index |-> it.index, last_error |-> it.last_error, last_type |-> it.last_type]

-----------------------------------------------------------------------------
(* Section streams the section iterator is run on *)

MaxSections == 3
MaxCalls == 6

\* one well-formed section: the fields on the widths its marker selects
MkSection(marker, type, payload) ==
    <<marker>>
    \o (IF HasFlag(marker, TIME_BYTE) THEN <<7>> ELSE WriteLE(7, 4))
    \o (IF HasFlag(marker, LENGTH_BYTE) THEN <<Len(payload)>>
        ELSE WriteLE(Len(payload), 4))
    \o (IF HasFlag(marker, TYPE_BYTE) THEN <<>> ELSE WriteLE(type, 2))
    \o (IF HasFlag(marker, BPARAM_BYTE) THEN <<9>> ELSE WriteLE(9, 4))
    \o payload

\* markers with an explicit type: all fields narrow (0xB0), all wide (0x01)
\* markers with an inherited type: all narrow (0xF1), wide time (0x70)
SectionMenu ==
    {MkSection(176, t, p) : t \in {1, 2}, p \in {<<>>, <<5>>}}
    \cup {MkSection(1, 513, <<5, 6>>)}
    \cup {MkSection(241, 0, p) : p \in {<<>>, <<5>>}}
    \cup {MkSection(112, 0, <<>>)}

RECURSIVE Streams(_)
Streams(n) ==
    IF n = 0 THEN {<<>>}
    ELSE LET shorter == Streams(n - 1) IN
         shorter \cup {s \o m : s \in shorter, m \in SectionMenu}

\* every stream of at most MaxSections sections, cut at every length
SectionData ==
    UNION {{SubSeq(s, 1, n) : n \in 0..Len(s)} : s \in Streams(MaxSections)}

-----------------------------------------------------------------------------
(* The section iterator driven by a caller that keeps calling next() *)

SectionInit ==
    /\ \E d \in SectionData : sit = SegmentIterator_new(d)
    /\ shist = <<>>
    /\ SegmentIdle /\ CipherIdle /\ PayloadIdle /\ RoflIdle
    /\ DecodeIdle

\* SegmentIterator::next(); shist gets one entry per call
SegIterNext ==
    /\ Len(shist) < MaxCalls
    /\ IF Len(sit.data) <= sit.index
       THEN /\ sit' = sit
            /\ shist' = Append(shist,
                   [ret |-> None, decode |-> "-", err |-> "-",
                    before |-> SegIterView(sit), after |-> SegIterView(sit)])
       ELSE LET r == GenericSection_from_slice(
                         SliceFrom(sit.data, sit.index), sit.last_type)
                nit == IF IsOk(r) THEN SegIterOnOk(sit, r.val)
                       ELSE SegIterOnErr(sit, r.err)
            IN /\ sit' = nit
               /\ shist' = Append(shist,
                      [ret |-> IF IsOk(r) THEN Some(r.val) ELSE None,
                       decode |-> r.tag, err |-> r.err,
                       before |-> SegIterView(sit), after |-> SegIterView(nit)])

SectionNext == SegIterNext /\ UNCHANGED <<seg, cin, payloadVars, roflVars, dec>>

SectionSpec == SectionInit /\ [][SectionNext]_vars

-----------------------------------------------------------------------------
(* Properties of the section iterator *)

Yields(k) == IsSome(shist[k].ret)
Yielded(k) == Unwrap(shist[k].ret)
Marker(f) == f.data[1]
Inherits(f) == HasFlag(Marker(f), TYPE_BYTE)
\* the type field as it stands in the bytes of an explicit-type section
ExplicitType(f) == ReadLE(f.data, type_offset(Marker(f)), 2)

\* the calls before call k that yielded a section with an explicit type
ExplicitBefore(k) == {j \in 1..(k - 1) : Yields(j) /\ ~Inherits(Yielded(j))}
Latest(S) == CHOOSE j \in S : \A i \in S : i <= j

\* total length of the sections yielded by the calls before call k
RECURSIVE YieldedLen(_)
YieldedLen(k) ==
    IF k <= 1 THEN 0
    ELSE YieldedLen(k - 1)
         + (IF Yields(k - 1) THEN section_len(Yielded(k - 1)) ELSE 0)

\* the bytes at 0-based offset off hold a whole section
WholeSectionAt(data, off) ==
    LET rest == SliceFrom(data, off)
        m == rest[1]
    IN /\ Len(rest) >= core_len(m)
       /\ Len(rest) >= core_len(m)
            + (IF HasFlag(m, LENGTH_BYTE) THEN rest[length_offset(m) + 1]
               ELSE ReadLE(rest, length_offset(m), 4))

\* C1: a yielded section with the inherit flag has the type of the latest
\* explicit-type section yielded before it, and a whole section with the
\* inherit flag at the start of the stream, with no last type, fails NoData.
C1_TypeCarry ==
    \A k \in 1..Len(shist) :
        /\ (Yields(k) /\ Inherits(Yielded(k))) =>
               /\ ExplicitBefore(k) # {}
               /\ Yielded(k).data_type
                    = ExplicitType(Yielded(Latest(ExplicitBefore(k))))
        /\ (/\ shist[k].decode # "-"
            /\ IsNone(shist[k].before.last_type)
            /\ HasFlag(sit.data[shist[k].before.index + 1], TYPE_BYTE)
            /\ WholeSectionAt(sit.data, shist[k].before.index)) =>
               /\ ~Yields(k)
               /\ shist[k].after.last_error = Some("NoData")

\* explicit, inherit, inherit: the third section got its type through the second
C1_Witness ==
    /\ Len(shist) >= 3
    /\ Yields(1) /\ ~Inherits(Yielded(1))
    /\ Yields(2) /\ Inherits(Yielded(2))
    /\ Yields(3) /\ Inherits(Yielded(3))
    /\ Yielded(3).data_type = 2

\* C2: from the first step whose decode fails on, no call yields an item,
\* is_valid() is false, and error() is the error the decoder returned.
C2_FailStop ==
    \A k \in 1..Len(shist) :
        shist[k].decode = "Err" =>
            /\ shist[k].after.last_error = Some(shist[k].err)
            /\ \A j \in k..Len(shist) :
                   /\ ~Yields(j)
                   /\ ~SegIter_is_valid(shist[j].after)
                   /\ shist[j].after.last_error = Some(shist[k].err)
            /\ ~SegIter_is_valid(sit)
            /\ SegIter_error(sit) = shist[k].err

\* a section was yielded, then a decode failed for want of bytes, and next()
\* was called twice more
C2_Witness ==
    /\ Len(shist) >= 4
    /\ Yields(1)
    /\ shist[2].decode = "Err" /\ shist[2].err = "BufferTooSmall"
    /\ shist[4].decode = "Err"

\* the stream ends inside the core header of the section call k decodes
TruncatedCore(k) ==
    /\ shist[k].decode # "-"
    /\ Len(sit.data) - shist[k].before.index
         < core_len(sit.data[shist[k].before.index + 1])

\* C3: a step that finds the stream cut inside a core header invalidates the
\* iterator and leaves the cursor at the start of that section (the total
\* length of the sections yielded so far) and the last type as it was; the
\* sections yielded before are still the bytes of the stream at their place.
C3_TruncatedCore ==
    \A k \in 1..Len(shist) :
        TruncatedCore(k) =>
            /\ ~Yields(k)
            /\ ~SegIter_is_valid(shist[k].after)
            /\ shist[k].after.index = shist[k].before.index
            /\ shist[k].after.index = YieldedLen(k)
            /\ shist[k].after.last_type = shist[k].before.last_type
            /\ SegIter_internal_index(sit) = YieldedLen(k)
            /\ \A j \in 1..(k - 1) :
                   Yields(j) =>
                       Yielded(j).data
                         = Slice(sit.data, YieldedLen(j),
                                 YieldedLen(j) + section_len(Yielded(j)))

\* two sections were yielded and the third is cut inside its core header
C3_Witness ==
    /\ Len(shist) >= 3
    /\ Yields(1) /\ Yields(2)
    /\ TruncatedCore(3)
    /\ SegIter_internal_index(sit) > 0

-----------------------------------------------------------------------------
(* The block cipher and the decompressor                                   *)
(*                                                                         *)
(* Blowfish and gzip come from the blowfish and flate2 crates. They are    *)
(* modelled by what the decoder relies on: a keyed permutation of 8-byte   *)
(* blocks, each block on its own, and a framed stream that inflates or is  *)
(* rejected. The cipher here reverses a block and subtracts the key's byte *)
(* sum; the stream here is a magic byte, a length byte and the body, and   *)
(* a failed inflation leaves the destination as it was.                    *)

BLOCK_LEN == 8
GZ_MAGIC == 31
KEY_MIN_LEN == 4
KEY_MAX_LEN == 56

RECURSIVE ByteSum(_)
ByteSum(s) == IF s = <<>> THEN 0 ELSE (s[1] + ByteSum(Tail(s))) % 256

\* Blowfish::new_from_slice(key): keys of 4 to 56 bytes
Blowfish_new_from_slice(key) ==
    IF Len(key) < KEY_MIN_LEN \/ Len(key) > KEY_MAX_LEN
    THEN Err("InvalidLength")
    ELSE Ok(key)

\* decrypt_block_mut / decrypt_block_b2b_mut on one 8-byte block
decrypt_block(key, blk) ==
    [i \in 1..BLOCK_LEN |-> (blk[BLOCK_LEN + 1 - i] + 256 - ByteSum(key)) % 256]

\* the inverse of decrypt_block (builds the encrypted fixtures)
encrypt_block(key, blk) ==
    [i \in 1..BLOCK_LEN |-> (blk[BLOCK_LEN + 1 - i] + ByteSum(key)) % 256]

\* for i in (0..len).step_by(8) { decrypt data_store[i..i+8] }, len % 8 = 0
RECURSIVE DecryptBlocks(_, _)
DecryptBlocks(key, s) ==
    IF Len(s) = 0 THEN <<>>
    ELSE decrypt_block(key, SubSeq(s, 1, BLOCK_LEN))
         \o DecryptBlocks(key, SubSeq(s, BLOCK_LEN + 1, Len(s)))

RECURSIVE EncryptBlocks(_, _)
EncryptBlocks(key, s) ==
    IF Len(s) = 0 THEN <<>>
    ELSE encrypt_block(key, SubSeq(s, 1, BLOCK_LEN))
         \o EncryptBlocks(key, SubSeq(s, BLOCK_LEN + 1, Len(s)))

\* GzDecoder::new(s).read_to_end(): the inflated bytes of the first member
\* (what follows it is not read), or an error
GzDecode(s) ==
    IF Len(s) >= 2 /\ s[1] = GZ_MAGIC /\ s[2] <= Len(s) - 2
    THEN Ok(SubSeq(s, 3, 2 + s[2]))
    ELSE Err("gzip")

\* the deflated stream of body (builds the fixtures)
GzEncode(body) == <<GZ_MAGIC, Len(body)>> \o body

\* the padding removal of decrypt_segment, on the decrypted data_store
decrypt_segment_depad(data_store) ==
    IF Len(data_store) = 0 THEN Panic("index out of bounds")
    ELSE LET depad_size == data_store[Len(data_store)] IN
         IF ~(Len(data_store) >= depad_size) THEN Panic("assert_eq")
         ELSE Ok(SubSeq(data_store, 1, Len(data_store) - depad_size))

\* iter/payload.rs decrypt_segment(cipher, out, key): Ok carries the new out
decrypt_segment(cipher, out, key) ==
    IF Len(cipher) % BLOCK_LEN # 0 THEN Panic("slice index out of range")
    ELSE LET depadded == decrypt_segment_depad(DecryptBlocks(key, cipher)) IN
         IF IsPanic(depadded) THEN depadded
         ELSE LET decoder_result == GzDecode(depadded.val) IN
              IF IsErr(decoder_result) THEN Err("InvalidBuffer")
              ELSE Ok(out \o decoder_result.val)

\* the padding removal of blowfish_decrypt, on the decrypted data_store
blowfish_decrypt_depad(data_store) ==
    LET depad_size == data_store[Len(data_store)] IN
    IF ~(Len(data_store) >= depad_size) THEN Panic("assert_eq")
    ELSE Ok(SubSeq(data_store, 1, Len(data_store) - depad_size))

\* model/payload.rs blowfish_decrypt(cipher, key, depad)
blowfish_decrypt(cipher, key, depad) ==
    IF Len(cipher) % BLOCK_LEN # 0 THEN Panic("assert_eq")
    ELSE IF Len(cipher) = 0 THEN Panic("assert_ne")
    ELSE IF IsErr(Blowfish_new_from_slice(key)) THEN Panic("unwrap")
    ELSE LET data_store == DecryptBlocks(key, cipher) IN
         IF depad THEN blowfish_decrypt_depad(data_store)
         ELSE Ok(data_store)

-----------------------------------------------------------------------------
(* base64 (the base64 crate, standard alphabet) and decimal strings *)

B64_INVALID == 64

\* the 6-bit value of an ASCII character, or B64_INVALID
B64Val(c) ==
    IF c >= 65 /\ c <= 90 THEN c - 65
    ELSE IF c >= 97 /\ c <= 122 THEN c - 97 + 26
    ELSE IF c >= 48 /\ c <= 57 THEN c - 48 + 52
    ELSE IF c = 43 THEN 62
    ELSE IF c = 47 THEN 63
    ELSE B64_INVALID

\* the ASCII character of a 6-bit value
B64Char(v) ==
    IF v < 26 THEN 65 + v
    ELSE IF v < 52 THEN 97 + v - 26
    ELSE IF v < 62 THEN 48 + v - 52
    ELSE IF v = 62 THEN 43
    ELSE 47

\* s without its trailing '=' padding (at most two)
B64Strip(s) ==
    IF Len(s) >= 2 /\ s[Len(s)] = 61 /\ s[Len(s) - 1] = 61
    THEN SubSeq(s, 1, Len(s) - 2)
    ELSE IF Len(s) >= 1 /\ s[Len(s)] = 61 THEN SubSeq(s, 1, Len(s) - 1)
    ELSE s

RECURSIVE B64Groups(_)
B64Groups(s) ==
    LET v(i) == B64Val(s[i]) IN
    IF Len(s) = 0 THEN <<>>
    ELSE IF Len(s) = 2 THEN <<v(1) * 4 + v(2) \div 16>>
    ELSE IF Len(s) = 3
    THEN <<v(1) * 4 + v(2) \div 16, (v(2) % 16) * 16 + v(3) \div 4>>
    ELSE <<v(1) * 4 + v(2) \div 16,
           (v(2) % 16) * 16 + v(3) \div 4,
           (v(3) % 4) * 64 + v(4)>>
         \o B64Groups(SubSeq(s, 5, Len(s)))

\* base64::decode(s)
Base64Decode(s) ==
    LET t == B64Strip(s) IN
    IF Len(t) % 4 = 1 \/ \E i \in 1..Len(t) : B64Val(t[i]) = B64_INVALID
    THEN Err("DecodeError")
    ELSE Ok(B64Groups(t))

\* base64::encode(b) (builds the fixtures)
RECURSIVE Base64Encode(_)
Base64Encode(b) ==
    IF Len(b) = 0 THEN <<>>
    ELSE IF Len(b) = 1
    THEN <<B64Char(b[1] \div 4), B64Char((b[1] % 4) * 16), 61, 61>>
    ELSE IF Len(b) = 2
    THEN <<B64Char(b[1] \div 4), B64Char((b[1] % 4) * 16 + b[2] \div 16),
           B64Char((b[2] % 16) * 4), 61>>
    ELSE <<B64Char(b[1] \div 4), B64Char((b[1] % 4) * 16 + b[2] \div 16),
           B64Char((b[2] % 16) * 4 + b[3] \div 64), B64Char(b[3] % 64)>>
         \o Base64Encode(SubSeq(b, 4, Len(b)))

\* u64::to_string().as_bytes(): the decimal digits in ASCII
RECURSIVE ToStringBytes(_)
ToStringBytes(n) ==
    IF n < 10 THEN <<48 + n>>
    ELSE ToStringBytes(n \div 10) \o <<48 + (n % 10)>>

-----------------------------------------------------------------------------
(* model/payload.rs: PayloadHeader *)

PAYLOAD_HEADER_FIXED_LEN == 34
U16_LIMIT == 65536

\* PayloadHeader::from_raw_section(data); the slices panic on a short buffer
PayloadHeader_from_raw_section(data) ==
    IF Len(data) < PAYLOAD_HEADER_FIXED_LEN THEN Panic("slice index out of range")
    ELSE LET key_len == ReadLE(data, 32, 2) IN
         \* 34 + key_len is a u16 sum: it overflows in debug builds and wraps
         \* below 34 in release builds, where the slice then panics
         IF PAYLOAD_HEADER_FIXED_LEN + key_len >= U16_LIMIT
         THEN Panic("u16 overflow")
         ELSE IF Len(data) < PAYLOAD_HEADER_FIXED_LEN + key_len
         THEN Panic("slice index out of range")
         ELSE Ok([match_id |-> ReadLE(data, 0, 8),
                  match_length |-> ReadLE(data, 8, 4),
                  keyframe_count |-> ReadLE(data, 12, 4),
                  chunk_count |-> ReadLE(data, 16, 4),
                  end_startup_chunk_id |-> ReadLE(data, 20, 4),
                  start_game_chunk_id |-> ReadLE(data, 24, 4),
                  keyframe_interval |-> ReadLE(data, 28, 4),
                  encryption_key_length |-> key_len,
                  encryption_key |->
                      Slice(data, PAYLOAD_HEADER_FIXED_LEN,
                            PAYLOAD_HEADER_FIXED_LEN + key_len)])

\* PayloadHeader::segment_encryption_key(): computed afresh by every call
segment_encryption_key(head) ==
    LET key == Base64Decode(head.encryption_key) IN
    IF IsErr(key) THEN Panic("unwrap")
    ELSE blowfish_decrypt(key.val, ToStringBytes(head.match_id), TRUE)

\* a payload header section as it stands in a file
MkPayloadHeader(match_id, keyframes, chunks, key_text) ==
    WriteLE(match_id, 8) \o WriteLE(91722, 4) \o WriteLE(keyframes, 4)
    \o WriteLE(chunks, 4) \o WriteLE(1, 4) \o WriteLE(2, 4)
    \o WriteLE(60000, 4) \o WriteLE(Len(key_text), 2) \o key_text

-----------------------------------------------------------------------------
(* model/segment.rs: Segment, one 17-byte segment header record *)

SEGMENT_HEADER_LEN == 17
SegmentType_Chunk == 1
SegmentType_Keyframe == 2

\* Segment::from_raw_section(data)
Segment_from_raw_section(data) ==
    [id |-> ReadLE(data, 0, 4),
     segment_type |-> data[5],
     length |-> ReadLE(data, 5, 4),
     chunk_id |-> ReadLE(data, 9, 4),
     offset |-> ReadLE(data, 13, 4),
     data |-> <<>>]

\* Segment::from_slice(data)
Segment_from_slice(data) ==
    IF Len(data) < SEGMENT_HEADER_LEN THEN Err("BufferTooSmall")
    ELSE Ok(Segment_from_raw_section(data))

Segment_len(s) == s.length
Segment_offset(s) == s.offset
\* a variant of is_loaded() that never reports a segment as loaded
Segment_is_loaded_Never(s) == FALSE

Segment_is_loaded(s) == s.data # <<>>
Segment_is_chunk(s) == s.segment_type = SegmentType_Chunk
Segment_is_keyframe(s) == s.segment_type = SegmentType_Keyframe

\* Segment::section_iter()
Segment_section_iter(s) ==
    IF Len(s.data) = 0 THEN Err("NoData")
    ELSE Ok(SegmentIterator_new(s.data))

\* a segment header record as it stands in a file
MkSegmentHeader(id, kind, length, chunk_id, offset) ==
    WriteLE(id, 4) \o <<kind>> \o WriteLE(length, 4)
    \o WriteLE(chunk_id, 4) \o WriteLE(offset, 4)

-----------------------------------------------------------------------------
(* iter/payload.rs: PayloadIterator, the segment header iterator *)

\* PayloadIterator::new(data, head, parse_data)
PayloadIterator_new(data, head, parse_data) ==
    LET segment_count == head.chunk_count + head.keyframe_count IN
    IF Len(data) < segment_count * SEGMENT_HEADER_LEN THEN Err("BufferTooSmall")
    ELSE LET raw_key == segment_encryption_key(head) IN
         IF IsPanic(raw_key) THEN raw_key
         ELSE IF IsErr(Blowfish_new_from_slice(raw_key.val)) THEN Panic("unwrap")
         ELSE Ok([data |-> data,
                  segment_count |-> segment_count,
                  parse_data |-> parse_data,
                  index |-> 0,
                  last_error |-> None,
                  key |-> Blowfish_new_from_slice(raw_key.val).val])

PayloadIter_is_valid(it) == IsNone(it.last_error)
PayloadIter_to_error(it) == Unwrap(it.last_error)
PayloadIter_internal_index(it) == it.index

\* the eager materialization of next(): the segment with its data, or why not
PayloadIterMaterialize(it, f) ==
    IF ~it.parse_data THEN Ok(f)
    ELSE LET segment_data_start ==
                 SEGMENT_HEADER_LEN * it.segment_count + Segment_offset(f)
         IN
      IF Len(it.data) < segment_data_start + Segment_len(f)
      THEN Err("BufferTooSmall")
      ELSE LET d == decrypt_segment(
                        Slice(it.data, segment_data_start,
                              segment_data_start + Segment_len(f)),
                        f.data, it.key)
           IN IF IsOk(d) THEN Ok([f EXCEPT !.data = d.val]) ELSE d

\* the header decode and the and_then closure of next(), up to the cursor move
PayloadIterDecode(it) ==
    LET h == Segment_from_slice(SliceFrom(it.data, it.index * SEGMENT_HEADER_LEN))
    IN IF IsOk(h) THEN PayloadIterMaterialize(it, h.val) ELSE h

\* a variant of the and_then closure that leaves the cursor where it is
PayloadIterOnOk_Stuck(it) == it

\* the end of the and_then closure: the cursor moves to the next record
PayloadIterOnOk(it) == [it EXCEPT !.index = it.index + 1]

\* the or_else closure of next(): the error is recorded
PayloadIterOnErr(it, e) == [it EXCEPT !.last_error = Some(e)]

PayloadIterView(it) == [index |-> it.index, last_error |-> it.last_error]

-----------------------------------------------------------------------------
(* Segment::from_slice on every kind byte *)

SegmentRecords ==
    {MkSegmentHeader(id, kind, 8, 0, 0) : id \in {1, 258}, kind \in 0..255}

SegmentInit ==
    /\ \E r \in SegmentRecords : seg = [record |-> r, decoded |-> None]
    /\ SectionIdle /\ CipherIdle /\ PayloadIdle /\ RoflIdle
    /\ DecodeIdle

SegmentDecode ==
    /\ IsNone(seg.decoded)
    /\ seg' = [seg EXCEPT !.decoded = Some(Segment_from_slice(seg.record))]
    /\ UNCHANGED <<sectionVars, cin, payloadVars, roflVars, dec>>

SegmentNext == SegmentDecode

SegmentSpec == SegmentInit /\ [][SegmentNext]_vars

\* C5: decoding a 17-byte record fails with InvalidBuffer when its kind byte
\* is neither 1 nor 2, and otherwise gives a Segment that is exactly one of
\* chunk and keyframe.
C5_KindChecked ==
    IsSome(seg.decoded) =>
        LET r == Unwrap(seg.decoded)
            kind == seg.record[5]
        IN IF kind \notin {1, 2}
           THEN IsErr(r) /\ r.err = "InvalidBuffer"
           ELSE IsOk(r) /\ (Segment_is_chunk(r.val) # Segment_is_keyframe(r.val))

-----------------------------------------------------------------------------
(* The two decrypt functions on buffers of every pad byte *)

\* the segment key of the fixtures
FixtureKey == <<11, 22, 33, 44>>

\* decrypted buffers of one and two blocks whose last byte is p; with p = 4
\* each is a well-formed stream followed by its padding
PlainBuffers ==
    {<<31, 2, 65, 66, 4, 4, 4, p>> : p \in 0..255}
    \cup {<<31, 10, 1, 2, 3, 4, 5, 6, 7, 8, 9, 10, 4, 4, 4, p>> : p \in 0..255}

\* encrypted regions: whole blocks, no bytes, and cut blocks
CipherInputs ==
    {EncryptBlocks(FixtureKey, b) : b \in PlainBuffers}
    \cup {<<>>, <<1, 2, 3, 4>>, <<1, 2, 3, 4, 5, 6, 7, 8, 9, 10, 11, 12>>}

CipherInit ==
    /\ \E c \in CipherInputs :
          cin = [cipher |-> c, key |-> FixtureKey,
                 segment |-> None, blowfish |-> None, depad |-> FALSE]
    /\ SectionIdle /\ SegmentIdle /\ PayloadIdle /\ RoflIdle
    /\ DecodeIdle

\* decrypt_segment(cipher, &mut Vec::new(), key)
CipherDecryptSegment ==
    /\ IsNone(cin.segment)
    /\ cin' = [cin EXCEPT
                 !.segment = Some(decrypt_segment(cin.cipher, <<>>, cin.key))]
    /\ UNCHANGED <<sectionVars, seg, payloadVars, roflVars, dec>>

\* blowfish_decrypt(cipher, key, depad)
CipherBlowfishDecrypt ==
    /\ IsNone(cin.blowfish)
    /\ \E depad \in BOOLEAN :
          cin' = [cin EXCEPT
                    !.blowfish = Some(blowfish_decrypt(cin.cipher, cin.key, depad)),
                    !.depad = depad]
    /\ UNCHANGED <<sectionVars, seg, payloadVars, roflVars, dec>>

CipherNext == CipherDecryptSegment \/ CipherBlowfishDecrypt

CipherSpec == CipherInit /\ [][CipherNext]_vars

\* C9: with p the last decrypted byte, padding removal fails with
\* InvalidBuffer when p > 8, fails with BufferTooSmall when the buffer is
\* shorter than p, and otherwise drops exactly the last p bytes, in
\* decrypt_segment and in blowfish_decrypt with depad.
C9_PadChecked ==
    (Len(cin.cipher) > 0 /\ Len(cin.cipher) % BLOCK_LEN = 0) =>
        LET buf == DecryptBlocks(cin.key, cin.cipher)
            p == buf[Len(buf)]
            kept == SubSeq(buf, 1, Len(buf) - p)
        IN /\ IsSome(cin.segment) =>
                LET r == Unwrap(cin.segment) IN
                IF p > 8 THEN r = Err("InvalidBuffer")
                ELSE IF Len(buf) < p THEN r = Err("BufferTooSmall")
                ELSE IF IsOk(GzDecode(kept)) THEN r = Ok(GzDecode(kept).val)
                ELSE r = Err("InvalidBuffer")
           /\ (IsSome(cin.blowfish) /\ cin.depad) =>
                LET r == Unwrap(cin.blowfish) IN
                IF p > 8 THEN r = Err("InvalidBuffer")
                ELSE IF Len(buf) < p THEN r = Err("BufferTooSmall")
                ELSE r = Ok(kept)

-----------------------------------------------------------------------------
(* Payload regions the segment header iterator is run on *)

MaxSegments == 2

\* the match id of the fixtures; its decimal string is the key of the key
FixtureMatchId == 1234

\* the encryption_key field: the segment key, padded, encrypted, in base64
FixtureKeyText ==
    Base64Encode(EncryptBlocks(ToStringBytes(FixtureMatchId),
                               FixtureKey \o <<4, 4, 4, 4>>))

\* decrypted blocks: a stream and its padding of 4; a stream with no
\* padding; an empty stream and its padding of 6; no stream, padding 1; the
\* two halves of a two-block stream with a padding of 4; a pad byte of 9
PlainBlocks ==
    { GzEncode(<<65, 66>>) \o <<4, 4, 4, 4>>,
      GzEncode(<<1, 2, 3, 4, 5, 0>>),
      GzEncode(<<>>) \o <<6, 6, 6, 6, 6, 6>>,
      <<0, 0, 0, 0, 0, 0, 0, 1>>,
      <<31, 10, 1, 2, 3, 4, 5, 6>>,
      <<7, 8, 9, 10, 4, 4, 4, 4>>,
      <<1, 1, 1, 1, 1, 1, 1, 9>> }

\* two-block regions: a two-block stream; a stream, then a pad byte of 9;
\* two one-block streams
PlainPairs ==
    { <<31, 10, 1, 2, 3, 4, 5, 6>> \o <<7, 8, 9, 10, 4, 4, 4, 4>>,
      GzEncode(<<65, 66>>) \o <<4, 4, 4, 4>> \o <<1, 1, 1, 1, 1, 1, 1, 9>>,
      GzEncode(<<65, 66>>) \o <<4, 4, 4, 4>> \o GzEncode(<<1, 2, 3, 4, 5, 0>>) }

\* segment data regions of one or two encrypted blocks
DataRegions == {EncryptBlocks(FixtureKey, b) : b \in PlainBlocks \cup PlainPairs}

\* kind, length and offset of a segment: whole blocks, cut blocks, nothing,
\* and spans that may run past the region
SegShapes ==
    {<<1, 8, 0>>, <<1, 16, 0>>, <<1, 8, 8>>, <<1, 4, 0>>, <<1, 0, 0>>,
     <<1, 8, 16>>, <<2, 8, 0>>, <<2, 8, 8>>}

\* header tables of n records; the ids run from 1 within each kind
RECURSIVE SegTables(_)
SegTables(n) ==
    IF n = 0 THEN {<<>>}
    ELSE {t \o <<[kind |-> sh[1], length |-> sh[2], offset |-> sh[3]]>> :
              t \in SegTables(n - 1), sh \in SegShapes}

KindCount(t, k) == Cardinality({i \in 1..Len(t) : t[i].kind = k})

RECURSIVE TableBytes(_, _)
TableBytes(t, n) ==
    IF n = 0 THEN <<>>
    ELSE TableBytes(t, n - 1)
         \o MkSegmentHeader(KindCount(SubSeq(t, 1, n), t[n].kind), t[n].kind,
                            t[n].length, 0, t[n].offset)

\* the payload header that announces the records of table t
HeadOfTable(t) ==
    PayloadHeader_from_raw_section(
        MkPayloadHeader(FixtureMatchId, KindCount(t, 2), KindCount(t, 1),
                        FixtureKeyText)).val

\* the arguments of PayloadIterator::new: whole payload regions, and regions
\* cut inside the header table
PayloadArgs ==
    {[data |-> TableBytes(t, Len(t)) \o r, head |-> HeadOfTable(t), parse_data |-> e] :
        t \in UNION {SegTables(n) : n \in 0..MaxSegments},
        r \in DataRegions, e \in BOOLEAN}
    \cup {[data |-> SubSeq(TableBytes(t, Len(t)), 1, Len(t) * SEGMENT_HEADER_LEN - 1),
           head |-> HeadOfTable(t), parse_data |-> e] :
        t \in SegTables(1), e \in BOOLEAN}

-----------------------------------------------------------------------------
(* The segment header iterator built and driven by a caller *)

NotBuilt == "not built"

PayloadInit ==
    /\ \E a \in PayloadArgs : phist = [args |-> a, made |-> None, log |-> <<>>]
    /\ pit = NotBuilt
    /\ SectionIdle /\ SegmentIdle /\ CipherIdle /\ RoflIdle
    /\ DecodeIdle

\* PayloadIterator::new(data, head, parse_data)
PayloadIterNew ==
    /\ IsNone(phist.made)
    /\ LET r == PayloadIterator_new(phist.args.data, phist.args.head,
                                    phist.args.parse_data)
       IN /\ pit' = IF IsOk(r) THEN r.val ELSE pit
          /\ phist' = [phist EXCEPT !.made = Some([tag |-> r.tag, err |-> r.err])]
    /\ UNCHANGED <<sectionVars, seg, cin, roflVars, dec>>

\* a panic unwinds out of next(): the caller makes no further call
PayloadPanicked ==
    Len(phist.log) > 0 /\ phist.log[Len(phist.log)].outcome = "Panic"

\* PayloadIterator::next(); phist.log gets one entry per call
PayloadIterNext ==
    /\ phist.made = Some([tag |-> "Ok", err |-> "-"])
    /\ Len(phist.log) < MaxCalls
    /\ ~PayloadPanicked
    /\ IF pit.index >= pit.segment_count
       THEN /\ pit' = pit
            /\ phist' = [phist EXCEPT !.log = Append(@,
                   [ret |-> None, outcome |-> "-", err |-> "-",
                    before |-> PayloadIterView(pit),
                    after |-> PayloadIterView(pit)])]
       ELSE LET r == PayloadIterDecode(pit)
                nit == IF IsOk(r) THEN PayloadIterOnOk(pit)
                       ELSE IF IsErr(r) THEN PayloadIterOnErr(pit, r.err)
                       ELSE pit
            IN /\ pit' = nit
               /\ phist' = [phist EXCEPT !.log = Append(@,
                      [ret |-> IF IsOk(r) THEN Some(r.val) ELSE None,
                       outcome |-> r.tag, err |-> r.err,
                       before |-> PayloadIterView(pit),
                       after |-> PayloadIterView(nit)])]
    /\ UNCHANGED <<sectionVars, seg, cin, roflVars, dec>>

PayloadNext == PayloadIterNew \/ PayloadIterNext

PayloadSpec == PayloadInit /\ [][PayloadNext]_vars

-----------------------------------------------------------------------------
(* Properties of the segment header iterator *)

PLog == phist.log
PYields(k) == IsSome(PLog[k].ret)
\* the step of call k did not produce its segment: an error value or a panic
PFailed(k) == PLog[k].outcome \in {"Err", "Panic"}

\* the header record that call k decodes
RecordOf(k) ==
    Segment_from_raw_section(
        SliceFrom(pit.data, PLog[k].before.index * SEGMENT_HEADER_LEN))

\* the encrypted span of the segment of call k lies within the data region
SpanInRange(k) ==
    Len(pit.data) >= SEGMENT_HEADER_LEN * pit.segment_count
                     + RecordOf(k).offset + RecordOf(k).length

\* C4: a step that fails records its cause as the last error, yields no
\* Segment and leaves the position; from then on is_valid() is false and no
\* call yields an item.
C4_FailStop ==
    \A k \in 1..Len(PLog) :
        PFailed(k) =>
            /\ ~PYields(k)
            /\ IsSome(PLog[k].after.last_error)
            /\ PLog[k].outcome = "Err" =>
                   PLog[k].after.last_error = Some(PLog[k].err)
            /\ PLog[k].after.index = PLog[k].before.index
            /\ \A j \in k..Len(PLog) :
                   ~PYields(j) /\ ~PayloadIter_is_valid(PLog[j].after)

\* C8: with eager materialization, a segment whose encrypted region is not a
\* whole number of 8-byte blocks, or is empty, makes the step end with the
\* error InvalidBuffer, not with a panic.
C8_CutRegionIsError ==
    \A k \in 1..Len(PLog) :
        (/\ PLog[k].outcome # "-"
         /\ pit.parse_data
         /\ SpanInRange(k)
         /\ RecordOf(k).length % BLOCK_LEN # 0 \/ RecordOf(k).length = 0) =>
            /\ PLog[k].outcome = "Err"
            /\ PLog[k].err = "InvalidBuffer"
            /\ PLog[k].after.last_error = Some("InvalidBuffer")

-----------------------------------------------------------------------------
(* lib.rs: Rofl, the loader over a borrowed ROFL file                      *)

LOAD_HEAD == 1
LOAD_METADATA == 2
LOAD_PAYLOAD_HEAD == 4
LOAD_SEGMENTS_HEAD == 8
LOAD_SEGMENTS == 16
LOAD_ALL == 31
PAYLOAD_INTERNAL_HEADER_LEN == 17
BIN_HEADER_LEN == 288
MAGIC == <<82, 73, 79, 84>>

\* config & mask != 0, for a mask of several one-bit flags
HasBits(config, mask) ==
    \E bit \in {LOAD_HEAD, LOAD_METADATA, LOAD_PAYLOAD_HEAD,
                LOAD_SEGMENTS_HEAD, LOAD_SEGMENTS} :
        HasFlag(mask, bit) /\ HasFlag(config, bit)

\* BinHeader::from_raw_section(data): the reads panic on a short slice
BinHeader_from_raw_section(data) ==
    IF Len(data) < BIN_HEADER_LEN THEN Panic("slice index out of range")
    ELSE Ok([signature |-> Slice(data, 6, 262),
             header_length |-> ReadLE(data, 262, 2),
             file_length |-> ReadLE(data, 264, 4),
             metadata_offset |-> ReadLE(data, 268, 4),
             metadata_length |-> ReadLE(data, 272, 4),
             payload_header_offset |-> ReadLE(data, 276, 4),
             payload_header_length |-> ReadLE(data, 280, 4),
             payload_offset |-> ReadLE(data, 284, 4)])

\* BinHeader::from_raw_source(data)
BinHeader_from_raw_source(data) == BinHeader_from_raw_section(SliceFrom(data, 0))

\* a continuation byte of a UTF-8 sequence
Utf8Cont(b) == 128 <= b /\ b <= 191

\* the length of the well-formed UTF-8 sequence at the head of s, 0 if none
Utf8Head(s) ==
    LET b == s[1]
        n == Len(s)
        Cont(i) == i <= n /\ Utf8Cont(s[i])
    IN  IF b < 128 THEN 1
        ELSE IF 194 <= b /\ b <= 223 THEN (IF Cont(2) THEN 2 ELSE 0)
        ELSE IF 224 <= b /\ b <= 239
        THEN (IF /\ Cont(2) /\ Cont(3)
                 /\ b = 224 => s[2] >= 160
                 /\ b = 237 => s[2] <= 159
              THEN 3 ELSE 0)
        ELSE IF 240 <= b /\ b <= 244
        THEN (IF /\ Cont(2) /\ Cont(3) /\ Cont(4)
                 /\ b = 240 => s[2] >= 144
                 /\ b = 244 => s[2] <= 143
              THEN 4 ELSE 0)
        ELSE 0

\* std::str::from_utf8(s).is_ok()
RECURSIVE IsUtf8(_)
IsUtf8(s) ==
    IF Len(s) = 0 THEN TRUE
    ELSE LET k == Utf8Head(s) IN
         IF k = 0 THEN FALSE ELSE IsUtf8(SubSeq(s, k + 1, Len(s)))

\* what a method leaves behind: the object, the returned value, and how many
\* times it ran PayloadHeader::segment_encryption_key()
Step(r, res, n) == [rofl |-> r, res |-> res, derived |-> n]

\* a variant of load_meta() that takes the bytes for text without looking
Rofl_load_meta_Unchecked(r) ==
    IF IsSome(r.metadata) THEN Step(r, Ok(Unwrap(r.metadata)), 0)
    ELSE IF Len(r.data) < r.head.metadata_offset + r.head.metadata_length
    THEN Step(r, Err("BufferTooSmall"), 0)
    ELSE Step([r EXCEPT !.metadata =
                   Some(Slice(r.data, r.head.metadata_offset,
                              r.head.metadata_offset + r.head.metadata_length))],
              Ok(Slice(r.data, r.head.metadata_offset,
                       r.head.metadata_offset + r.head.metadata_length)), 0)

\* Rofl::load_meta()
Rofl_load_meta(r) ==
    LET off == r.head.metadata_offset
        len == r.head.metadata_length
    IN  IF IsSome(r.metadata) THEN Step(r, Ok(Unwrap(r.metadata)), 0)
        ELSE IF Len(r.data) < off + len THEN Step(r, Err("BufferTooSmall"), 0)
        ELSE IF ~IsUtf8(Slice(r.data, off, off + len))
        THEN Step(r, Err("InvalidBuffer"), 0)
        ELSE Step([r EXCEPT !.metadata = Some(Slice(r.data, off, off + len))],
                  Ok(Slice(r.data, off, off + len)), 0)

\* the end of Rofl::cipher(): the Blowfish state made of the derived key is
\* kept in self.cipher (it stands here as its key)
CipherOfKey(r, key) ==
    IF IsPanic(key) THEN Step(r, key, 1)
    ELSE IF IsOk(Blowfish_new_from_slice(key.val))
    THEN Step([r EXCEPT !.cipher = Some(key.val)], Ok(Some(key.val)), 1)
    ELSE Step(r, Ok(None), 1)

\* Rofl::cipher(): the key is derived only while self.cipher is empty
Rofl_cipher(r) ==
    IF IsSome(r.cipher) THEN Step(r, Ok(r.cipher), 0)
    ELSE IF IsNone(r.payload) THEN Step(r, Ok(None), 0)
    ELSE CipherOfKey(r, segment_encryption_key(Unwrap(r.payload)))

\* the end of Rofl::load_payload(): p is what from_raw_section made
PayloadOfSection(r, p) ==
    IF IsPanic(p) THEN Step(r, p, 0)
    ELSE Step([r EXCEPT !.payload = Some(p.val)], Ok(Some(p.val)), 0)

\* Rofl::load_payload()
Rofl_load_payload(r) ==
    LET off == r.head.payload_header_offset
        len == r.head.payload_header_length
    IN  IF IsSome(r.payload) THEN Step(r, Ok(r.payload), 0)
        ELSE IF Len(r.data) < off + len
        THEN Step(r, Panic("slice index out of range"), 0)
        ELSE PayloadOfSection(
                 r, PayloadHeader_from_raw_section(Slice(r.data, off, off + len)))

\* chunk_count() + keyframe_count() of a payload header
SegmentTotal(payload) == payload.chunk_count + payload.keyframe_count

\* where the segment data starts: past the header table
PayloadDataStart(head, payload) ==
    head.payload_offset + PAYLOAD_INTERNAL_HEADER_LEN * SegmentTotal(payload)

\* a variant of the push that keeps the chunks and drops every other record
PushSegment_ChunksOnly(lists, segment) ==
    IF Segment_is_chunk(segment)
    THEN [lists EXCEPT !.chunks = Append(@, segment)]
    ELSE lists

\* a record joins the chunks when its kind is 1, the keyframes otherwise
PushSegment(lists, segment) ==
    IF Segment_is_chunk(segment)
    THEN [lists EXCEPT !.chunks = Append(@, segment)]
    ELSE [lists EXCEPT !.keyframes = Append(@, segment)]

\* the header loop of load_segments_heads, from record i on: each record
\* is read at payload_offset + 17 * i
RECURSIVE PushHeads(_, _, _)
PushHeads(r, i, segment_total) ==
    IF i >= segment_total THEN Step(r, Ok("()"), 0)
    ELSE IF Len(r.data) < r.head.payload_offset
                          + PAYLOAD_INTERNAL_HEADER_LEN * i + SEGMENT_HEADER_LEN
    THEN Step(r, Panic("slice index out of range"), 0)
    ELSE PushHeads(
             PushSegment(r, Segment_from_raw_section(
                 SliceFrom(r.data, r.head.payload_offset
                                   + PAYLOAD_INTERNAL_HEADER_LEN * i))),
             i + 1, segment_total)

\* the closures of load_segments_heads, on what load_payload returned
HeadsOfPayload(lp) ==
    IF ~IsOk(lp.res) THEN lp
    ELSE IF IsNone(lp.res.val) THEN Step(lp.rofl, Err("NoData"), 0)
    ELSE PushHeads(lp.rofl, 0, SegmentTotal(Unwrap(lp.res.val)))

\* Rofl::load_segments_heads()
Rofl_load_segments_heads(r) ==
    IF Len(r.chunks) = 0 /\ Len(r.keyframes) = 0
    THEN HeadsOfPayload(Rofl_load_payload(r))
    ELSE Step(r, Ok("()"), 0)

\* the padding removal of blow_decrypt
blow_decrypt_depad(data_store) ==
    IF Len(data_store) = 0 THEN Panic("index out of bounds")
    ELSE blowfish_decrypt_depad(data_store)

\* lib.rs blow_decrypt(cipher, decrypt, depad): no length check before the
\* block loop and the padding read
blow_decrypt(cipher, key, depad) ==
    IF Len(cipher) % BLOCK_LEN # 0 THEN Panic("slice index out of range")
    ELSE IF depad THEN blow_decrypt_depad(DecryptBlocks(key, cipher))
    ELSE Ok(DecryptBlocks(key, cipher))

\* the end of rofl_decrypt_decompress: read_to_end(out)
InflateInto(out, decoder_result) ==
    IF IsErr(decoder_result) THEN Err("InvalidBuffer")
    ELSE Ok(out \o decoder_result.val)

\* rofl_decrypt_decompress past the decryption of data_len bytes
DecompressInto(data_len, decrypted_data, out) ==
    IF IsPanic(decrypted_data) THEN decrypted_data
    ELSE IF Len(decrypted_data.val) < data_len THEN Err("BufferTooSmall")
    ELSE IF 8 < decrypted_data.val[data_len] THEN Err("InvalidBuffer")
    ELSE InflateInto(out, GzDecode(SubSeq(decrypted_data.val, 1,
                                          data_len - decrypted_data.val[data_len])))

\* Rofl::rofl_decrypt_decompress(data, cipher, out): the new content of out
rofl_decrypt_decompress(data, key, out) ==
    DecompressInto(Len(data), blow_decrypt(data, key, TRUE), out)

\* segment i of load_segments: the chunks come first, then the keyframes
SegmentAt(r, i) ==
    IF i < Len(r.chunks) THEN r.chunks[i + 1]
    ELSE r.keyframes[i - Len(r.chunks) + 1]

\* segment i of load_segments, with new data
WithDataAt(r, i, data) ==
    IF i < Len(r.chunks) THEN [r EXCEPT !.chunks[i + 1].data = data]
    ELSE [r EXCEPT !.keyframes[i - Len(r.chunks) + 1].data = data]

\* the file span of a segment's encrypted data
SpanFrom(head, payload, segment) ==
    PayloadDataStart(head, payload) + Segment_offset(segment)

SpanTo(head, payload, segment) ==
    SpanFrom(head, payload, segment) + Segment_len(segment)

\* one unloaded segment of load_segments
LoadOne(r, segment) ==
    IF Len(r.data) < SpanTo(r.head, Unwrap(r.payload), segment)
    THEN Panic("slice index out of range")
    ELSE rofl_decrypt_decompress(
             Slice(r.data, SpanFrom(r.head, Unwrap(r.payload), segment),
                   SpanTo(r.head, Unwrap(r.payload), segment)),
             Unwrap(r.cipher), segment.data)

\* the segment loop of load_segments, from position i on: a loaded segment
\* is passed over, and the first failure ends the loop
RECURSIVE LoadEach(_, _, _)
LoadRest(r, i, payload_count, out) ==
    IF ~IsOk(out) THEN Step(r, out, 0)
    ELSE LoadEach(WithDataAt(r, i, out.val), i + 1, payload_count)

LoadEach(r, i, payload_count) ==
    IF i >= payload_count THEN Step(r, Ok("()"), 0)
    ELSE IF Segment_is_loaded(SegmentAt(r, i))
    THEN LoadEach(r, i + 1, payload_count)
    ELSE LoadRest(r, i, payload_count, LoadOne(r, SegmentAt(r, i)))

\* load_segments past self.cipher(): the count assertion and the loop
LoadWithCipher(c) ==
    IF IsPanic(c.res) THEN c
    ELSE IF IsNone(c.res.val) THEN Step(c.rofl, Err("NoData"), c.derived)
    ELSE IF SegmentTotal(Unwrap(c.rofl.payload))
            # Len(c.rofl.chunks) + Len(c.rofl.keyframes)
    THEN Step(c.rofl, Panic("assert_eq: segment counts"), c.derived)
    ELSE [LoadEach(c.rofl, 0, SegmentTotal(Unwrap(c.rofl.payload)))
          EXCEPT !.derived = c.derived]

\* load_segments past load_segments_heads()
LoadWithHeads(lh) ==
    IF ~IsOk(lh.res) THEN lh ELSE LoadWithCipher(Rofl_cipher(lh.rofl))

\* Rofl::load_segments()
Rofl_load_segments(r) == LoadWithHeads(Rofl_load_segments_heads(r))

\* the end of load_segment: read_to_end(&mut segment.data) appends the
\* inflated bytes to the data the segment already holds
AppendInflated(r, id, is_chunk, decoder_result) ==
    IF IsErr(decoder_result) THEN Step(r, Err("InvalidBuffer"), 1)
    ELSE IF is_chunk
    THEN Step([r EXCEPT !.chunks[id].data = @ \o decoder_result.val],
              Ok([r.chunks[id] EXCEPT !.data = @ \o decoder_result.val]), 1)
    ELSE Step([r EXCEPT !.keyframes[id].data = @ \o decoder_result.val],
              Ok([r.keyframes[id] EXCEPT !.data = @ \o decoder_result.val]), 1)

\* load_segment past the decryption of the segment's len bytes
LoadDecrypted(r, id, is_chunk, len, decrypted_data) ==
    IF IsPanic(decrypted_data) THEN Step(r, decrypted_data, 1)
    ELSE IF Len(decrypted_data.val) < len THEN Step(r, Err("BufferTooSmall"), 1)
    ELSE IF 8 < decrypted_data.val[len] THEN Step(r, Err("InvalidBuffer"), 1)
    ELSE AppendInflated(r, id, is_chunk,
                        GzDecode(SubSeq(decrypted_data.val, 1,
                                        len - decrypted_data.val[len])))

\* load_segment past the key derivation
LoadWithKey(r, id, is_chunk, slice, segment, decryption_key) ==
    IF IsPanic(decryption_key) THEN Step(r, decryption_key, 1)
    ELSE IF Len(slice) < SpanTo(r.head, Unwrap(r.payload), segment)
    THEN Step(r, Panic("slice index out of range"), 1)
    ELSE LoadDecrypted(
             r, id, is_chunk, Segment_len(segment),
             blowfish_decrypt(
                 Slice(slice, SpanFrom(r.head, Unwrap(r.payload), segment),
                       SpanTo(r.head, Unwrap(r.payload), segment)),
                 decryption_key.val, FALSE))

\* the list load_segment looks into
SegmentList(r, is_chunk) == IF is_chunk THEN r.chunks ELSE r.keyframes

\* Rofl::load_segment(id, is_chunk, slice). id - 1 is a usize subtraction:
\* for id = 0 it panics where overflow checks are compiled in and wraps to
\* usize::MAX, which is past every list, where they are not. There is no
\* look at is_loaded().
Rofl_load_segment(r, id, is_chunk, slice, overflow_checks) ==
    IF id = 0 /\ overflow_checks
    THEN Step(r, Panic("attempt to subtract with overflow"), 0)
    ELSE IF id = 0 \/ id - 1 >= Len(SegmentList(r, is_chunk))
    THEN Step(r, Err("NoData"), 0)
    ELSE IF IsNone(r.payload) THEN Step(r, Panic("unwrap"), 0)
    ELSE LoadWithKey(r, id, is_chunk, slice, SegmentList(r, is_chunk)[id],
                     segment_encryption_key(Unwrap(r.payload)))

\* Rofl::load_chunk(id, slice)
Rofl_load_chunk(r, id, slice, overflow_checks) ==
    Rofl_load_segment(r, id, TRUE, slice, overflow_checks)

\* Rofl::load_keyframe(id, slice)
Rofl_load_keyframe(r, id, slice, overflow_checks) ==
    Rofl_load_segment(r, id, FALSE, slice, overflow_checks)

\* no chunk and no keyframe
NoSegments == [chunks |-> <<>>, keyframes |-> <<>>]

\* offset() + len() of a header record: the end of its span
SegmentEnd(raw) == Segment_offset(raw) + Segment_len(raw)

\* the end of one turn of the from_slice loop: read_to_end(&mut segment.data)
FromSliceInflated(lists, raw, decoder_result) ==
    IF IsErr(decoder_result) THEN Err("()")
    ELSE Ok(PushSegment(lists, [raw EXCEPT !.data = decoder_result.val]))

\* one turn of the from_slice loop when the segments' data is wanted: the
\* record's span of the decrypted region, less its padding, is inflated
FromSliceLoad(lists, raw, decrypted_data) ==
    IF Len(decrypted_data) < SegmentEnd(raw) THEN Err("()")
    ELSE IF SegmentEnd(raw) = 0 THEN Panic("attempt to subtract with overflow")
    ELSE IF 8 < decrypted_data[SegmentEnd(raw)] THEN Err("()")
    ELSE IF SegmentEnd(raw) < Segment_offset(raw) + decrypted_data[SegmentEnd(raw)]
    THEN Panic("slice index out of range")
    ELSE FromSliceInflated(
             lists, raw,
             GzDecode(SubSeq(decrypted_data, Segment_offset(raw) + 1,
                             SegmentEnd(raw) - decrypted_data[SegmentEnd(raw)])))

\* one turn of the from_slice loop, for the record at payload_offset + 17 * i
FromSliceEach(slice, header, config, decrypted_data, lists, i) ==
    IF Len(slice) < header.payload_offset + PAYLOAD_INTERNAL_HEADER_LEN * i
                    + SEGMENT_HEADER_LEN
    THEN Panic("slice index out of range")
    ELSE IF HasBits(config, LOAD_SEGMENTS)
    THEN FromSliceLoad(
             lists,
             Segment_from_raw_section(
                 SliceFrom(slice, header.payload_offset
                                  + PAYLOAD_INTERNAL_HEADER_LEN * i)),
             decrypted_data)
    ELSE Ok(PushSegment(
                lists,
                Segment_from_raw_section(
                    SliceFrom(slice, header.payload_offset
                                     + PAYLOAD_INTERNAL_HEADER_LEN * i))))

\* the segment loop of Rofl::from_slice, from record i on; decrypted_data is
\* the whole data region, decrypted, when the segments' data is wanted
RECURSIVE FromSliceSegments(_, _, _, _, _, _, _)
FromSliceRest(slice, header, config, decrypted_data, one, i, n) ==
    IF ~IsOk(one) THEN one
    ELSE FromSliceSegments(slice, header, config, decrypted_data, one.val, i + 1, n)

FromSliceSegments(slice, header, config, decrypted_data, lists, i, n) ==
    IF i >= n THEN Ok(lists)
    ELSE FromSliceRest(slice, header, config, decrypted_data,
                       FromSliceEach(slice, header, config, decrypted_data, lists, i),
                       i, n)

\* from_slice past the decryption of the data region
FromSliceDecrypted(slice, header, config, payload, decrypted_data) ==
    IF IsPanic(decrypted_data) THEN Step(None, decrypted_data, 1)
    ELSE Step(Some(payload),
              FromSliceSegments(slice, header, config, decrypted_data.val,
                                NoSegments, 0, SegmentTotal(payload)),
              1)

\* decrypted_data of from_slice: empty unless the segments' data is wanted
FromSliceRegion(slice, header, config, payload, key) ==
    IF ~HasBits(config, LOAD_SEGMENTS) THEN Ok(<<>>)
    ELSE IF Len(slice) < PayloadDataStart(header, payload)
    THEN Panic("slice index out of range")
    ELSE blowfish_decrypt(SliceFrom(slice, PayloadDataStart(header, payload)),
                          key, FALSE)

\* from_slice past the key derivation
FromSliceWithKey(slice, header, config, payload, decryption_key) ==
    IF IsPanic(decryption_key) THEN Step(None, decryption_key, 1)
    ELSE FromSliceDecrypted(
             slice, header, config, payload,
             FromSliceRegion(slice, header, config, payload, decryption_key.val))

\* from_slice past the payload header: the key is derived when the segment
\* headers or their data are wanted
FromSliceWithPayload(slice, header, config, payload) ==
    IF IsPanic(payload) THEN Step(None, payload, 0)
    ELSE IF ~HasBits(config, LOAD_SEGMENTS_HEAD + LOAD_SEGMENTS)
    THEN Step(Some(payload.val), Ok(NoSegments), 0)
    ELSE FromSliceWithKey(slice, header, config, payload.val,
                          segment_encryption_key(payload.val))

\* the payload part of Rofl::from_slice: the payload header and both lists
FromSlicePayload(slice, header, config) ==
    LET off == header.payload_header_offset
        len == header.payload_header_length
    IN  IF ~HasBits(config, LOAD_PAYLOAD_HEAD + LOAD_SEGMENTS_HEAD + LOAD_SEGMENTS)
        THEN Step(None, Ok(NoSegments), 0)
        ELSE IF Len(slice) < off + len THEN Step(None, Err("()"), 0)
        ELSE FromSliceWithPayload(
                 slice, header, config,
                 PayloadHeader_from_raw_section(Slice(slice, off, off + len)))

\* a variant of the metadata part that reads the metadata whatever config says
FromSliceMeta_Always(slice, header, config) ==
    IF Len(slice) < header.metadata_offset + header.metadata_length
    THEN Err("()")
    ELSE Ok(Some(Slice(slice, header.metadata_offset,
                       header.metadata_offset + header.metadata_length)))

\* the metadata part of Rofl::from_slice
FromSliceMeta(slice, header, config) ==
    LET off == header.metadata_offset
        len == header.metadata_length
    IN  IF ~HasBits(config, LOAD_METADATA) THEN Ok(None)
        ELSE IF Len(slice) < off + len THEN Err("()")
        ELSE IF ~IsUtf8(Slice(slice, off, off + len)) THEN Err("()")
        ELSE Ok(Some(Slice(slice, off, off + len)))

\* the end of Rofl::from_slice: the metadata part comes first
FromSliceBuild(slice, header, metadata, pl) ==
    IF ~IsOk(metadata) THEN Step(None, metadata, 0)
    ELSE IF ~IsOk(pl.res) THEN Step(None, pl.res, pl.derived)
    ELSE Step(Some([head |-> header,
                    metadata |-> metadata.val,
                    payload |-> pl.rofl,
                    chunks |-> pl.res.val.chunks,
                    keyframes |-> pl.res.val.keyframes,
                    data |-> slice,
                    cipher |-> None]),
              Ok("Rofl"), pl.derived)

\* from_slice past the file header
FromSliceHeader(slice, config, header) ==
    IF IsPanic(header) THEN Step(None, header, 0)
    ELSE FromSliceBuild(slice, header.val,
                        FromSliceMeta(slice, header.val, config),
                        FromSlicePayload(slice, header.val, config))

\* Rofl::from_slice(slice, config)
Rofl_from_slice(slice, config) ==
    IF Len(slice) < Len(MAGIC) \/ SubSeq(slice, 1, Len(MAGIC)) # MAGIC
    THEN Step(None, Err("()"), 0)
    ELSE FromSliceHeader(slice, config, BinHeader_from_raw_source(slice))

-----------------------------------------------------------------------------
(* Rofl scenario: a file is handed to Rofl::from_slice, then the loading   *)
(* methods are called in any order; rhist keeps the file, the last two     *)
(* calls and a count of the key derivations that were run                  *)

MaxRoflCalls == 3
MaxId == 2

\* a file header: the signature is 256 zero bytes
MkBinHeader(file_len, meta_off, meta_len, ph_off, ph_len, p_off) ==
    MAGIC \o <<0, 0>> \o [i \in 1..256 |-> 0] \o WriteLE(BIN_HEADER_LEN, 2)
    \o WriteLE(file_len, 4) \o WriteLE(meta_off, 4) \o WriteLE(meta_len, 4)
    \o WriteLE(ph_off, 4) \o WriteLE(ph_len, 4) \o WriteLE(p_off, 4)

\* a whole file: header, metadata, payload header, header table t, region
MkFile(meta, t, region) ==
    LET ph == MkPayloadHeader(FixtureMatchId, KindCount(t, 2), KindCount(t, 1),
                              FixtureKeyText)
        table == TableBytes(t, Len(t))
        ph_off == BIN_HEADER_LEN + Len(meta)
        p_off == ph_off + Len(ph)
    IN  MkBinHeader(p_off + Len(table) + Len(region), BIN_HEADER_LEN, Len(meta),
                    ph_off, Len(ph), p_off)
        \o meta \o ph \o table \o region

Shape(kind, length, offset) ==
    [kind |-> kind, length |-> length, offset |-> offset]

\* decrypted blocks whose last byte, the padding, is 0: two streams, a
\* stream that inflates to nothing, and a stream of two blocks
Stream0 == GzEncode(<<1, 2, 3, 4, 5, 0>>)
Stream0b == GzEncode(<<7, 7, 7>>) \o <<0, 0, 0>>
Empty0 == GzEncode(<<>>) \o <<0, 0, 0, 0, 0, 0>>
Long0 == GzEncode(<<1, 2, 3, 4, 5, 6, 7, 8, 9, 10>>) \o <<0, 0, 0, 0>>
\* a stream and its padding of 4; no stream; a pad byte of 9
Stream4 == GzEncode(<<65, 66>>) \o <<4, 4, 4, 4>>
NoStream == <<0, 0, 0, 0, 0, 0, 0, 1>>
Pad9 == <<1, 1, 1, 1, 1, 1, 1, 9>>

\* header tables and the decrypted data regions they go with
RoflPayloads ==
    { <<<<Shape(1, 8, 0), Shape(2, 8, 8)>>, Stream0 \o Stream0b>>,
      <<<<Shape(2, 8, 0), Shape(1, 8, 8)>>, Stream0 \o Stream0b>>,
      <<<<Shape(1, 8, 0), Shape(2, 8, 8)>>, Stream4 \o Stream0>>,
      <<<<Shape(1, 8, 0), Shape(1, 8, 8)>>, Empty0 \o Stream0>>,
      <<<<Shape(1, 16, 0)>>, Long0>>,
      <<<<Shape(1, 4, 0)>>, Stream4>>,
      <<<<Shape(1, 8, 16)>>, Stream4>>,
      <<<<Shape(1, 8, 0)>>, NoStream>>,
      <<<<Shape(1, 8, 0)>>, Pad9>>,
      <<<<>>, <<>>>> }

FixtureMeta == <<123, 125>>

\* well-formed files
RoflFiles ==
    {MkFile(FixtureMeta, p[1], EncryptBlocks(FixtureKey, p[2])) : p \in RoflPayloads}

\* file f with the kind byte of its header record i (from 0) set to kind
WithKindByte(f, i, kind) ==
    [f EXCEPT ![ReadLE(f, 284, 4) + SEGMENT_HEADER_LEN * i + 5] = kind]

\* a file whose metadata is not UTF-8, and a well-formed file: cut inside
\* the magic, the header, the metadata, the payload header and the header
\* table, with another first byte, and with a kind byte of 3 in its second
\* header record
BrokenFiles ==
    LET f == MkFile(FixtureMeta, <<Shape(1, 8, 0), Shape(2, 8, 8)>>,
                    EncryptBlocks(FixtureKey, Stream0 \o Stream0b))
    IN  { MkFile(<<123, 255>>, <<Shape(1, 8, 0)>>,
                 EncryptBlocks(FixtureKey, Stream0)),
          SubSeq(f, 1, 3), SubSeq(f, 1, 100), SubSeq(f, 1, 289), SubSeq(f, 1, 300),
          SubSeq(f, 1, Len(f) - 20), <<83>> \o SubSeq(f, 2, Len(f)),
          WithKindByte(f, 1, 3) }

RoflConfigs ==
    {LOAD_HEAD, LOAD_METADATA, LOAD_PAYLOAD_HEAD, LOAD_SEGMENTS_HEAD,
     LOAD_SEGMENTS, LOAD_ALL}

\* the data buffers of the chunks and of the keyframes
SegData(r) ==
    [chunks |-> [i \in 1..Len(r.chunks) |-> r.chunks[i].data],
     keyframes |-> [i \in 1..Len(r.keyframes) |-> r.keyframes[i].data]]

RoflInit ==
    /\ SectionIdle /\ SegmentIdle /\ CipherIdle /\ PayloadIdle
    /\ DecodeIdle
    /\ rofl = NotBuilt
    /\ \E f \in RoflFiles \cup BrokenFiles :
           rhist = [file |-> f, made |-> None, calls |-> 0, last |-> None,
                    prev |-> None, loaded_ok |-> FALSE, derivations |-> 0]

RoflBuilt == rhist.made = Some("Ok")
RoflPanicked == IsSome(rhist.last) /\ Unwrap(rhist.last).outcome = "Panic"

\* let rofl = Rofl::from_slice(&file, config)
RoflFromSlice ==
    /\ rhist.made = None
    /\ \E config \in RoflConfigs :
       \E st \in {Rofl_from_slice(rhist.file, config)} :
           /\ rofl' = IF IsOk(st.res) THEN Unwrap(st.rofl) ELSE NotBuilt
           /\ rhist' = [rhist EXCEPT !.made = Some(st.res.tag),
                                     !.derivations = st.derived]

\* a method call that left st behind; a panic ends the scenario; text is
\* the string that load_meta returned
RoflCall(op, id, st) ==
    /\ rofl' = st.rofl
    /\ rhist' = [rhist EXCEPT
           !.calls = @ + 1,
           !.prev = rhist.last,
           !.last = Some([op |-> op, id |-> id, outcome |-> st.res.tag,
                          err |-> st.res.err, before |-> SegData(rofl),
                          after |-> SegData(st.rofl),
                          loaded_before |-> rhist.loaded_ok,
                          derived |-> st.derived,
                          text |-> IF op = "load_meta" /\ IsOk(st.res)
                                   THEN Some(st.res.val) ELSE None]),
           !.loaded_ok = @ \/ (op = "load_segments" /\ IsOk(st.res)),
           !.derivations = @ + st.derived]

RoflCallable == RoflBuilt /\ ~RoflPanicked /\ rhist.calls < MaxRoflCalls

RoflLoadMeta == RoflCallable /\ RoflCall("load_meta", 0, Rofl_load_meta(rofl))

RoflLoadPayload ==
    RoflCallable /\ RoflCall("load_payload", 0, Rofl_load_payload(rofl))

RoflLoadSegmentsHeads ==
    RoflCallable
    /\ RoflCall("load_segments_heads", 0, Rofl_load_segments_heads(rofl))

RoflLoadSegments ==
    RoflCallable /\ RoflCall("load_segments", 0, Rofl_load_segments(rofl))

\* rofl.load_chunk(id, &file), built with or without overflow checks
RoflLoadChunk ==
    /\ RoflCallable
    /\ \E id \in 0..MaxId, overflow_checks \in BOOLEAN :
           RoflCall("load_chunk", id,
                    Rofl_load_chunk(rofl, id, rhist.file, overflow_checks))

\* rofl.load_keyframe(id, &file), built with or without overflow checks
RoflLoadKeyframe ==
    /\ RoflCallable
    /\ \E id \in 0..MaxId, overflow_checks \in BOOLEAN :
           RoflCall("load_keyframe", id,
                    Rofl_load_keyframe(rofl, id, rhist.file, overflow_checks))

RoflNext ==
    /\ \/ RoflFromSlice
       \/ RoflLoadMeta
       \/ RoflLoadPayload
       \/ RoflLoadSegmentsHeads
       \/ RoflLoadSegments
       \/ RoflLoadChunk
       \/ RoflLoadKeyframe
    /\ UNCHANGED <<sectionVars, seg, cin, payloadVars, dec>>

RoflSpec == RoflInit /\ [][RoflNext]_vars

-----------------------------------------------------------------------------
(* Rofl properties *)

LastCall == Unwrap(rhist.last)
PrevCall == Unwrap(rhist.prev)

\* some chunk or keyframe holds data in snapshot d
SomeLoaded(d) ==
    \/ \E i \in 1..Len(d.chunks) : d.chunks[i] # <<>>
    \/ \E i \in 1..Len(d.keyframes) : d.keyframes[i] # <<>>

\* the last two calls are load_chunk, or load_keyframe, with one id, and the
\* first of them succeeded
LoadedTwice ==
    /\ IsSome(rhist.prev) /\ IsSome(rhist.last)
    /\ PrevCall.op \in {"load_chunk", "load_keyframe"}
    /\ LastCall.op = PrevCall.op /\ LastCall.id = PrevCall.id
    /\ PrevCall.outcome = "Ok"

\* C6: loading one segment twice through load_chunk or load_keyframe, with
\* the same id and the same source slice, succeeds both times and leaves the
\* segment's data as it was after the first call.
C6_LoadAgainIsNoop ==
    LoadedTwice => LastCall.outcome = "Ok" /\ LastCall.after = PrevCall.after

\* the last call is a load_segments that follows a successful load_segments
LoadSegmentsAgain ==
    /\ IsSome(rhist.last)
    /\ LastCall.op = "load_segments"
    /\ LastCall.loaded_before

\* C7: after one successful load_segments, every further load_segments
\* returns Ok and leaves the data of every chunk and keyframe unchanged.
C7_LoadSegmentsIdempotent ==
    LoadSegmentsAgain =>
        LastCall.outcome = "Ok" /\ LastCall.after = LastCall.before

\* a second load_segments passed over segments that hold data
C7_Witness ==
    /\ LoadSegmentsAgain
    /\ LastCall.outcome = "Ok"
    /\ SomeLoaded(LastCall.before)
    /\ LastCall.after = LastCall.before

\* C10: over all the requests for the segment key of one payload header,
\* the base64-decode and decrypt derivation runs at most once.
C10_DerivedOnce == rhist.derivations <= 1

-----------------------------------------------------------------------------
(* Decoder scenario: one buffer is handed to one of the decoders           *)
(* (GenericSection::from_slice, PayloadHeader::from_raw_section,           *)
(* BinHeader::from_raw_source) and dec keeps what it returned              *)

MaxPayloadLen == 2

\* the bytes 5, 6, ... of a section payload of n bytes
SectionPayload(n) == [i \in 1..n |-> 4 + i]

\* every prefix of s
Prefixes(s) == {SubSeq(s, 1, n) : n \in 0..Len(s)}

\* for each of the 256 markers: a well-formed section, each of its prefixes,
\* and the section followed by one more byte
SectionBuffers ==
    UNION {Prefixes(MkSection(m, 513, SectionPayload(n)) \o <<99>>) :
               m \in 0..255, n \in {0, MaxPayloadLen}}

\* for each of the 256 markers: the marker alone, and the marker followed by
\* 3 and by 15 zero bytes (every field 0, no payload); and no byte at all
LegacyBuffers ==
    {<<m>> \o [i \in 1..n |-> 0] : m \in 0..255, n \in {0, 3, 15}} \cup {<<>>}

\* a payload header section whose key is n bytes 'A'
LongKeyHeader(n) ==
    SubSeq(MkPayloadHeader(FixtureMatchId, 2, 6, <<>>), 1, 32)
    \o WriteLE(n, 2) \o [i \in 1..n |-> 65]

\* payload header sections with no key, with the fixture's key and with a
\* declared key length of 65535: each of their prefixes; and whole sections
\* with the longest key whose end offset fits 16 bits, and one byte more
PayloadHeaderBuffers ==
    Prefixes(MkPayloadHeader(FixtureMatchId, 2, 6, <<>>))
    \cup Prefixes(MkPayloadHeader(FixtureMatchId, 2, 6, FixtureKeyText))
    \cup {SubSeq(MkPayloadHeader(FixtureMatchId, 2, 6, <<>>), 1, 32)
          \o <<255, 255>> \o FixtureKeyText}
    \cup {LongKeyHeader(U16_LIMIT - PAYLOAD_HEADER_FIXED_LEN - 1),
          LongKeyHeader(U16_LIMIT - PAYLOAD_HEADER_FIXED_LEN)}

\* a file header followed by two bytes, cut at several lengths, and the same
\* bytes with another first byte
BinHeaderBuffers ==
    LET h == MkBinHeader(290, 288, 2, 290, 0, 290) \o <<123, 125>> IN
    {SubSeq(h, 1, n) : n \in {0, 3, 4, 6, 100, 262, 264, 287, 288, 290}}
    \cup {<<83>> \o SubSeq(h, 2, n) : n \in {4, 100, 288, 290}}

DecodeInit ==
    /\ SectionIdle /\ SegmentIdle /\ CipherIdle /\ PayloadIdle /\ RoflIdle
    /\ \/ \E b \in SectionBuffers, last \in {None, Some(7)} :
              dec = [fn |-> "GenericSection::from_slice", input |-> b,
                     last |-> last, out |-> None]
       \/ \E b \in PayloadHeaderBuffers :
              dec = [fn |-> "PayloadHeader::from_raw_section", input |-> b,
                     last |-> None, out |-> None]
       \/ \E b \in BinHeaderBuffers :
              dec = [fn |-> "BinHeader::from_raw_source", input |-> b,
                     last |-> None, out |-> None]
       \/ \E b \in LegacyBuffers :
              dec = [fn |-> "GenericDataSegment::from_slice", input |-> b,
                     last |-> None, out |-> None]

\* GenericSection::from_slice(&input, last)
DecodeSection ==
    /\ dec.fn = "GenericSection::from_slice" /\ IsNone(dec.out)
    /\ dec' = [dec EXCEPT
                  !.out = Some(GenericSection_from_slice(dec.input, dec.last))]
    /\ UNCHANGED <<sectionVars, seg, cin, payloadVars, roflVars>>

\* PayloadHeader::from_raw_section(&input)
DecodePayloadHeader ==
    /\ dec.fn = "PayloadHeader::from_raw_section" /\ IsNone(dec.out)
    /\ dec' = [dec EXCEPT !.out = Some(PayloadHeader_from_raw_section(dec.input))]
    /\ UNCHANGED <<sectionVars, seg, cin, payloadVars, roflVars>>

\* BinHeader::from_raw_source(&input)
DecodeBinHeader ==
    /\ dec.fn = "BinHeader::from_raw_source" /\ IsNone(dec.out)
    /\ dec' = [dec EXCEPT !.out = Some(BinHeader_from_raw_source(dec.input))]
    /\ UNCHANGED <<sectionVars, seg, cin, payloadVars, roflVars>>

\* GenericDataSegment::from_slice(&input)
DecodeLegacy ==
    /\ dec.fn = "GenericDataSegment::from_slice" /\ IsNone(dec.out)
    /\ dec' = [dec EXCEPT !.out = Some(GenericDataSegment_from_slice(dec.input))]
    /\ UNCHANGED <<sectionVars, seg, cin, payloadVars, roflVars>>

DecodeNext ==
    DecodeSection \/ DecodePayloadHeader \/ DecodeBinHeader \/ DecodeLegacy

DecodeSpec == DecodeInit /\ [][DecodeNext]_vars

\* what the decoder returned
Decoded == Unwrap(dec.out)

DecodedBy(fn) == dec.fn = fn /\ IsSome(dec.out)

\* C11: decoding a payload header from a slice shorter than 34 bytes, or
\* shorter than 34 bytes plus the declared key length, fails with
\* BufferTooSmall; it never panics, and a header comes out only of a slice
\* that holds every field.
C11_ShortPayloadHeader ==
    DecodedBy("PayloadHeader::from_raw_section") =>
        /\ ~IsPanic(Decoded)
        /\ IF \/ Len(dec.input) < PAYLOAD_HEADER_FIXED_LEN
              \/ Len(dec.input) < PAYLOAD_HEADER_FIXED_LEN + ReadLE(dec.input, 32, 2)
           THEN Decoded = Err("BufferTooSmall")
           ELSE IsOk(Decoded)

\* C12: Rofl::from_slice fails with an error value, not a panic, for every
\* buffer shorter than the 288-byte header and for every buffer whose first
\* 4 bytes are not the magic constant.
C12_ShortFileIsError ==
    (/\ IsSome(rhist.made)
     /\ \/ Len(rhist.file) < BIN_HEADER_LEN
        \/ SubSeq(rhist.file, 1, Len(MAGIC)) # MAGIC) =>
        rhist.made = Some("Err")

-----------------------------------------------------------------------------
(* Segment header iterator properties, header-only iteration *)

\* chunk_count + keyframe_count of the header given to PayloadIterator::new
Announced == phist.args.head.chunk_count + phist.args.head.keyframe_count

\* PayloadIterator::new returned an iterator
PayloadBuilt == phist.made = Some([tag |-> "Ok", err |-> "-"])

\* the record of bytes [17k, 17k+17) of the region, k counted from 0
RecordAt(k) ==
    Segment_from_raw_section(
        Slice(phist.args.data, SEGMENT_HEADER_LEN * k, SEGMENT_HEADER_LEN * (k + 1)))

\* C13: without eager materialization, over a region of at least 17 bytes
\* per announced segment, the iterator yields exactly the announced number
\* of segments, the k-th decoded from bytes [17k, 17k+17), and then ends
\* still valid; new() fails with BufferTooSmall on a shorter region.
C13_HeaderOnlyWalk ==
    /\ (IsSome(phist.made)
        /\ Len(phist.args.data) < SEGMENT_HEADER_LEN * Announced) =>
           phist.made = Some([tag |-> "Err", err |-> "BufferTooSmall"])
    /\ (PayloadBuilt /\ ~phist.args.parse_data) =>
           \A k \in 1..Len(PLog) :
               IF k <= Announced
               THEN PLog[k].ret = Some(RecordAt(k - 1))
               ELSE /\ PLog[k].ret = None
                    /\ PayloadIter_is_valid(PLog[k].after)

\* a header-only walk over two records has yielded both and has ended
C13_Witness ==
    /\ PayloadBuilt /\ ~phist.args.parse_data
    /\ Announced = 2
    /\ Len(PLog) = 3
    /\ PLog[1].ret = Some(RecordAt(0)) /\ PLog[2].ret = Some(RecordAt(1))
    /\ RecordAt(0) # RecordAt(1)
    /\ PLog[3].ret = None /\ PayloadIter_is_valid(pit)

-----------------------------------------------------------------------------
(* Section decoder properties *)

SectionDecoded == DecodedBy("GenericSection::from_slice")

\* the field widths that the bits of a marker stand for
TimeWidth(m) == IF (m \div 128) % 2 = 1 THEN 1 ELSE 4
LengthWidth(m) == IF (m \div 16) % 2 = 1 THEN 1 ELSE 4
TypeWidth(m) == IF (m \div 64) % 2 = 1 THEN 0 ELSE 2
ParamWidth(m) == IF (m \div 32) % 2 = 1 THEN 1 ELSE 4
CoreWidth(m) == 1 + TimeWidth(m) + LengthWidth(m) + TypeWidth(m) + ParamWidth(m)

\* the length and type fields of buffer b, at the places its marker gives
LengthField(b) == ReadLE(b, 1 + TimeWidth(b[1]), LengthWidth(b[1]))
TypeField(b) == ReadLE(b, 1 + TimeWidth(b[1]) + LengthWidth(b[1]), 2)

\* buffer b holds a whole section
WholeSection(b) ==
    /\ Len(b) > 0
    /\ Len(b) >= CoreWidth(b[1])
    /\ Len(b) >= CoreWidth(b[1]) + LengthField(b)

\* C14: for every marker and every buffer that from_slice accepts, len() is
\* core_len() + data_len(), data_len() is the value of the length field, and
\* bytes() is the first len() bytes of the buffer.
C14_LengthAndBytes ==
    (SectionDecoded /\ IsOk(Decoded)) =>
        /\ section_len(Decoded.val)
               = Decoded.val.core_len + section_data_len(Decoded.val)
        /\ section_data_len(Decoded.val) = LengthField(dec.input)
        /\ Decoded.val.data = SubSeq(dec.input, 1, section_len(Decoded.val))

\* a section with a payload was decoded from a buffer that goes on after it
C14_Witness ==
    /\ SectionDecoded /\ IsOk(Decoded)
    /\ section_data_len(Decoded.val) = MaxPayloadLen
    /\ Len(dec.input) > section_len(Decoded.val)
    /\ Decoded.val.data = SubSeq(dec.input, 1, section_len(Decoded.val))

\* C15: from_slice fails with BufferTooSmall for every buffer shorter than
\* the core header its marker selects, the empty buffer included, and for
\* every buffer shorter than the core header plus the payload length.
C15_ShortSection ==
    (SectionDecoded /\ ~WholeSection(dec.input)) =>
        Decoded = Err("BufferTooSmall")

\* C15 as amended: from_slice fails with NoData for the empty buffer, and
\* with BufferTooSmall for every other buffer shorter than the core header
\* its marker selects or than the core header plus the payload length.
C15_ShortSectionAmended ==
    (SectionDecoded /\ ~WholeSection(dec.input)) =>
        Decoded = IF Len(dec.input) = 0 THEN Err("NoData")
                  ELSE Err("BufferTooSmall")

\* a buffer that holds a whole core header and one payload byte too few
C15_Witness ==
    /\ SectionDecoded
    /\ Len(dec.input) > 0
    /\ Len(dec.input) >= CoreWidth(dec.input[1])
    /\ Len(dec.input) = CoreWidth(dec.input[1]) + LengthField(dec.input) - 1
    /\ Decoded = Err("BufferTooSmall")

\* C18: for each of the 256 markers the decoder takes the time on 1 byte if
\* bit 0x80 is set, else 4; the length on 1 byte if bit 0x10 is set, else 4;
\* the type on 0 bytes if bit 0x40 is set, else 2; the parameter on 1 byte
\* if bit 0x20 is set, else 4; it reads time, length, type, parameter in
\* this order, the core length is 1 plus the four widths, the low four bits
\* change nothing and no marker is rejected.
C18_MarkerWidths ==
    SectionDecoded =>
        /\ IsOk(Decoded) =>
               /\ Decoded.val.core_len = CoreWidth(dec.input[1])
               /\ section_data_len(Decoded.val) = LengthField(dec.input)
               /\ Decoded.val.data_type =
                      IF TypeWidth(dec.input[1]) = 0 THEN Unwrap(dec.last)
                      ELSE TypeField(dec.input)
        /\ Len(dec.input) > 0 =>
               /\ length_offset(dec.input[1]) = 1 + TimeWidth(dec.input[1])
               /\ type_offset(dec.input[1])
                      = length_offset(dec.input[1]) + LengthWidth(dec.input[1])
               /\ core_len(dec.input[1]) = core_len(16 * (dec.input[1] \div 16))
        /\ (/\ WholeSection(dec.input)
            /\ TypeWidth(dec.input[1]) = 2 \/ IsSome(dec.last)) => IsOk(Decoded)

\* marker 0x9F: narrow time and length, a type, a wide parameter, low bits set
C18_Witness ==
    /\ SectionDecoded /\ IsOk(Decoded)
    /\ dec.input[1] = 159
    /\ Decoded.val.core_len = 9
    /\ Decoded.val.data_type = 513
    /\ section_data_len(Decoded.val) = MaxPayloadLen

-----------------------------------------------------------------------------
(* Rofl properties, spans and loading *)

\* the file holds a whole file header that starts with the magic
WholeHeader ==
    /\ Len(rhist.file) >= BIN_HEADER_LEN
    /\ SubSeq(rhist.file, 1, Len(MAGIC)) = MAGIC

\* C16: every Rofl operation that slices the buffer with offsets or lengths
\* read from a header checks the span against the buffer and returns an
\* error value when it does not fit: given a whole file header, neither
\* from_slice nor a later method panics.
C16_SpansChecked ==
    WholeHeader =>
        /\ rhist.made # Some("Panic")
        /\ IsSome(rhist.last) => LastCall.outcome # "Panic"

-----------------------------------------------------------------------------
(* Segment properties, section iteration over yielded segments *)

\* C17: section_iter() of a yielded Segment fails with NoData exactly when
\* the segment was not materialized (header-only iteration); once its
\* materialization succeeded (eager iteration) it returns an iterator at
\* byte 0 with no last type and no error.
C17_SectionIterAfterLoad ==
    \A k \in 1..Len(PLog) :
        PYields(k) =>
            IF pit.parse_data
            THEN /\ IsOk(Segment_section_iter(Unwrap(PLog[k].ret)))
                 /\ Segment_section_iter(Unwrap(PLog[k].ret)).val.index = 0
                 /\ Segment_section_iter(Unwrap(PLog[k].ret)).val.last_type = None
                 /\ Segment_section_iter(Unwrap(PLog[k].ret)).val.last_error = None
            ELSE Segment_section_iter(Unwrap(PLog[k].ret)) = Err("NoData")

-----------------------------------------------------------------------------
(* Rofl::from_slice under every config: one file, one config, one call *)

MaxConfig == 63

FromSliceInit ==
    /\ SectionIdle /\ SegmentIdle /\ CipherIdle /\ PayloadIdle
    /\ DecodeIdle
    /\ rofl = NotBuilt
    /\ \E f \in RoflFiles \cup BrokenFiles, config \in 0..MaxConfig :
           rhist = [file |-> f, config |-> config, made |-> None]

\* let rofl = Rofl::from_slice(&file, config)
FromSliceCall ==
    /\ rhist.made = None
    /\ \E st \in {Rofl_from_slice(rhist.file, rhist.config)} :
           /\ rofl' = IF IsOk(st.res) THEN Unwrap(st.rofl) ELSE NotBuilt
           /\ rhist' = [rhist EXCEPT !.made = Some(st.res.tag)]
    /\ UNCHANGED <<sectionVars, seg, cin, payloadVars, dec>>

FromSliceNext == FromSliceCall

FromSliceSpec == FromSliceInit /\ [][FromSliceNext]_vars

\* bit `flag` of the config handed to from_slice
Asked(flag) == (rhist.config \div flag) % 2 = 1

\* the eight header fields as they stand in the file
HeaderFields ==
    [signature |-> SubSeq(rhist.file, 7, 262),
     header_length |-> ReadLE(rhist.file, 262, 2),
     file_length |-> ReadLE(rhist.file, 264, 4),
     metadata_offset |-> ReadLE(rhist.file, 268, 4),
     metadata_length |-> ReadLE(rhist.file, 272, 4),
     payload_header_offset |-> ReadLE(rhist.file, 276, 4),
     payload_header_length |-> ReadLE(rhist.file, 280, 4),
     payload_offset |-> ReadLE(rhist.file, 284, 4)]

\* C19: for every config, a successful from_slice has the file header
\* loaded; the metadata present iff LOAD_METADATA is set; the payload header
\* present iff one of LOAD_PAYLOAD_HEAD, LOAD_SEGMENTS_HEAD, LOAD_SEGMENTS is
\* set; segment lists populated only if LOAD_SEGMENTS_HEAD or LOAD_SEGMENTS
\* is set; segment data loaded only if LOAD_SEGMENTS is set.
C19_ConfigSelectsParts ==
    rhist.made = Some("Ok") =>
        /\ rofl.head = HeaderFields
        /\ IsSome(rofl.metadata) <=> Asked(LOAD_METADATA)
        /\ IsSome(rofl.payload) <=>
               \/ Asked(LOAD_PAYLOAD_HEAD)
               \/ Asked(LOAD_SEGMENTS_HEAD)
               \/ Asked(LOAD_SEGMENTS)
        /\ Len(rofl.chunks) + Len(rofl.keyframes) > 0 =>
               Asked(LOAD_SEGMENTS_HEAD) \/ Asked(LOAD_SEGMENTS)
        /\ SomeLoaded(SegData(rofl)) => Asked(LOAD_SEGMENTS)

\* LOAD_SEGMENTS alone: no metadata, a payload header, both lists, data
C19_Witness ==
    /\ rhist.made = Some("Ok")
    /\ rhist.config = LOAD_SEGMENTS
    /\ IsNone(rofl.metadata) /\ IsSome(rofl.payload)
    /\ Len(rofl.chunks) > 0 /\ Len(rofl.keyframes) > 0
    /\ SomeLoaded(SegData(rofl))

-----------------------------------------------------------------------------
(* Rofl properties, load_meta *)

\* the step is a call of load_meta on a built Rofl
LoadMetaStep ==
    /\ RoflBuilt
    /\ rhist'.calls = rhist.calls + 1
    /\ Unwrap(rhist'.last).op = "load_meta"

\* the metadata span that the file header announces, and its bytes
MetaEnd == ReadLE(rhist.file, 268, 4) + ReadLE(rhist.file, 272, 4)
MetaBytes == SubSeq(rhist.file, ReadLE(rhist.file, 268, 4) + 1, MetaEnd)

\* C20: load_meta returns BufferTooSmall when metadata_offset +
\* metadata_length exceeds the buffer length and InvalidBuffer when the
\* metadata bytes are not UTF-8, and leaves the metadata unloaded in both
\* cases; a successful call returns the metadata text, and once the
\* metadata is loaded every call returns that same text and leaves the Rofl
\* as it was.
C20_LoadMeta ==
    [][LoadMetaStep =>
        /\ (IsNone(rofl.metadata) /\ MetaEnd > Len(rhist.file)) =>
               /\ Unwrap(rhist'.last).outcome = "Err"
               /\ Unwrap(rhist'.last).err = "BufferTooSmall"
               /\ rofl' = rofl
        /\ (/\ IsNone(rofl.metadata) /\ MetaEnd <= Len(rhist.file)
            /\ ~IsUtf8(MetaBytes)) =>
               /\ Unwrap(rhist'.last).outcome = "Err"
               /\ Unwrap(rhist'.last).err = "InvalidBuffer"
               /\ rofl' = rofl
        /\ Unwrap(rhist'.last).outcome = "Ok" =>
               /\ Unwrap(rhist'.last).text = Some(MetaBytes)
               /\ rofl' = [rofl EXCEPT !.metadata = Some(MetaBytes)]
        /\ IsSome(rofl.metadata) =>
               /\ Unwrap(rhist'.last).outcome = "Ok"
               /\ Unwrap(rhist'.last).text = rofl.metadata
               /\ rofl' = rofl
    ]_vars

\* load_meta succeeded twice in a row and returned the same text
C20_Witness ==
    /\ IsSome(rhist.prev) /\ IsSome(rhist.last)
    /\ PrevCall.op = "load_meta" /\ LastCall.op = "load_meta"
    /\ PrevCall.outcome = "Ok" /\ LastCall.outcome = "Ok"
    /\ LastCall.text = Some(FixtureMeta)
    /\ LastCall.text = PrevCall.text
    /\ rofl.metadata = Some(FixtureMeta)

-----------------------------------------------------------------------------
(* Section iterator properties, cursor and last type *)

\* the total length of a yielded section, from its own bytes
TotalLen(f) == CoreWidth(Marker(f)) + LengthField(f.data)

\* total length of the sections yielded by the first k calls
RECURSIVE YieldedTotal(_)
YieldedTotal(k) ==
    IF k = 0 THEN 0
    ELSE YieldedTotal(k - 1) + (IF Yields(k) THEN TotalLen(Yielded(k)) ELSE 0)

\* the last type after the first k calls, from the yielded sections' bytes
TypeAfter(k) ==
    IF ExplicitBefore(k + 1) = {} THEN None
    ELSE Some(ExplicitType(Yielded(Latest(ExplicitBefore(k + 1)))))

\* C21: after any sequence of next() calls the cursor is the sum of the
\* total lengths of the sections yielded so far and is at most the data
\* length; a successful step advances the cursor by that section's total
\* length; the last type is the explicit type of the most recent
\* explicit-type section yielded, and a section that inherited its type
\* leaves its value alone; when next() returns no item while is_valid() is
\* true, the cursor is the data length.
C21_CursorAndLastType ==
    /\ sit.index = YieldedTotal(Len(shist))
    /\ sit.index <= Len(sit.data)
    /\ sit.last_type = TypeAfter(Len(shist))
    /\ \A k \in 1..Len(shist) :
           /\ shist[k].after.index = YieldedTotal(k)
           /\ shist[k].after.last_type = TypeAfter(k)
           /\ Yields(k) =>
                  /\ shist[k].after.index
                       = shist[k].before.index + TotalLen(Yielded(k))
                  /\ Inherits(Yielded(k)) =>
                         shist[k].after.last_type = shist[k].before.last_type
           /\ (~Yields(k) /\ SegIter_is_valid(shist[k].after)) =>
                  shist[k].after.index = Len(sit.data)

\* explicit, inherit with a payload, explicit, then the end of the data
C21_Witness ==
    /\ Len(shist) = 4
    /\ Yields(1) /\ ~Inherits(Yielded(1))
    /\ Yields(2) /\ Inherits(Yielded(2)) /\ LengthField(Yielded(2).data) > 0
    /\ Yields(3) /\ ~Inherits(Yielded(3))
    /\ ~Yields(4) /\ SegIter_is_valid(sit)
    /\ sit.index = Len(sit.data)
    /\ sit.last_type = Some(ExplicitType(Yielded(3)))

-----------------------------------------------------------------------------
(* Segment header iterator properties, eager materialization *)

\* the encrypted span of the segment of call k, as the claim places it
SpanOf(k) ==
    SubSeq(pit.data,
           SEGMENT_HEADER_LEN * pit.segment_count + RecordOf(k).offset + 1,
           SEGMENT_HEADER_LEN * pit.segment_count + RecordOf(k).offset
               + RecordOf(k).length)

\* C22: with eager materialization a step takes the segment's span as
\* [17 * segment_count + offset, 17 * segment_count + offset + length) of
\* the data region; a span that runs past the region makes the step fail
\* with BufferTooSmall, and otherwise the step either yields the segment or
\* ends with the decrypt or decompress failure as its recorded error.
C22_EagerSpan ==
    \A k \in 1..Len(PLog) :
        (PLog[k].outcome # "-" /\ pit.parse_data) =>
            IF ~SpanInRange(k)
            THEN /\ PLog[k].outcome = "Err"
                 /\ PLog[k].err = "BufferTooSmall"
                 /\ PLog[k].after.last_error = Some("BufferTooSmall")
            ELSE IF PYields(k)
            THEN Ok(Unwrap(PLog[k].ret).data) = decrypt_segment(SpanOf(k), <<>>, pit.key)
            ELSE /\ PLog[k].outcome = "Err"
                 /\ PLog[k].after.last_error = Some(PLog[k].err)

\* C23: internal_index() is a byte index into internal_slice(): after a
\* failure it is the byte offset of the segment header record at which the
\* failure occurred, so internal_slice()[internal_index()..] starts at that
\* record.
C23_IndexIsByteOffset ==
    \A k \in 1..Len(PLog) :
        PLog[k].outcome = "Err" =>
            /\ PayloadIter_internal_index(PLog[k].after)
                 = PLog[k].before.index * SEGMENT_HEADER_LEN
            /\ Segment_from_raw_section(
                   SliceFrom(pit.data, PayloadIter_internal_index(PLog[k].after)))
                 = RecordOf(k)

-----------------------------------------------------------------------------
(* The legacy decoder against the bit-flag decoder *)

\* C24: for every marker that the legacy dispatch table accepts, the core
\* length of the table equals the core length that the bit-flag decoder
\* computes for that marker.
C24_TableAgrees ==
    (DecodedBy("GenericDataSegment::from_slice") /\ IsOk(Decoded)) =>
        /\ Decoded.val.core_len = core_len(dec.input[1])
        /\ Decoded.val.core_len = CoreWidth(dec.input[1])

\* C25: for every encryption_key_length in 0..65535 and a slice of at least
\* 34 + encryption_key_length bytes, the decoded encryption_key is the bytes
\* [34, 34 + encryption_key_length) of the slice: the end offset does not
\* wrap around 16 bits.
C25_KeySpan ==
    (/\ DecodedBy("PayloadHeader::from_raw_section")
     /\ Len(dec.input) >= PAYLOAD_HEADER_FIXED_LEN
     /\ Len(dec.input) >= PAYLOAD_HEADER_FIXED_LEN + ReadLE(dec.input, 32, 2)) =>
        /\ IsOk(Decoded)
        /\ Decoded.val.encryption_key
             = SubSeq(dec.input, PAYLOAD_HEADER_FIXED_LEN + 1,
                      PAYLOAD_HEADER_FIXED_LEN + ReadLE(dec.input, 32, 2))

-----------------------------------------------------------------------------
(* Rofl properties, padding in load_segments *)

\* the file of a chunk whose block is a stream of 65 66 and a padding of 4,
\* and of a keyframe whose block has a pad byte of 0
PaddedFile ==
    MkFile(FixtureMeta, <<Shape(1, 8, 0), Shape(2, 8, 8)>>,
           EncryptBlocks(FixtureKey, Stream4 \o Stream0))

\* C26: in the load_segments path, a decrypted region whose last byte is a
\* pad length p with 1 <= p <= 8 loses its padding exactly once: the first
\* (region length - p) bytes go to the decompressor and the operation does
\* not fail because of the padding.
C26_PadRemovedOnce ==
    (/\ rhist.file = PaddedFile
     /\ IsSome(rhist.last)
     /\ LastCall.op = "load_segments"
     /\ ~SomeLoaded(LastCall.before)) =>
        /\ LastCall.outcome = "Ok"
        /\ LastCall.after.chunks = <<GzDecode(SubSeq(Stream4, 1, Len(Stream4) - 4)).val>>

-----------------------------------------------------------------------------
(* Rofl properties, the segment lists *)

\* chunk_count + keyframe_count as they stand in the file's payload header
AnnouncedInFile ==
    ReadLE(rhist.file, ReadLE(rhist.file, 276, 4) + 12, 4)
    + ReadLE(rhist.file, ReadLE(rhist.file, 276, 4) + 16, 4)

ListedInRofl == Len(rofl.chunks) + Len(rofl.keyframes)

\* C27: the count assertion of load_segments never fails: after from_slice
\* and any loading calls, whenever load_segments_heads has returned Ok (and
\* whenever a list holds a segment) chunks.len() + keyframes.len() is
\* chunk_count + keyframe_count of the payload header.
C27_CountsMatch ==
    /\ IsSome(rhist.last) => LastCall.err # "assert_eq: segment counts"
    /\ (RoflBuilt /\ ~RoflPanicked) =>
           /\ ListedInRofl > 0 =>
                  IsSome(rofl.payload) /\ ListedInRofl = AnnouncedInFile
           /\ (/\ IsSome(rhist.last)
               /\ LastCall.op \in {"load_segments_heads", "load_segments"}
               /\ LastCall.outcome = "Ok") =>
                  /\ IsSome(rofl.payload)
                  /\ ListedInRofl = AnnouncedInFile
                  /\ ListedInRofl = SegmentTotal(Unwrap(rofl.payload))

\* load_segments_heads filled the lists of a Rofl built with the header
\* only, and load_segments then passed its assertion
C27_Witness ==
    /\ RoflBuilt
    /\ IsSome(rhist.prev) /\ IsSome(rhist.last)
    /\ PrevCall.op = "load_segments_heads" /\ PrevCall.outcome = "Ok"
    /\ Len(PrevCall.before.chunks) + Len(PrevCall.before.keyframes) = 0
    /\ LastCall.op = "load_segments" /\ LastCall.outcome = "Ok"
    /\ ListedInRofl = 2

-----------------------------------------------------------------------------
(* Section iterator, termination: the caller keeps calling next() *)

MaxFairSections == 2

\* every stream of at most MaxFairSections sections, cut at every length
SectionFairInit ==
    /\ \E d \in UNION {Prefixes(s) : s \in Streams(MaxFairSections)} :
           sit = SegmentIterator_new(d)
    /\ shist = <<>>
    /\ SegmentIdle /\ CipherIdle /\ PayloadIdle /\ RoflIdle
    /\ DecodeIdle

SectionFairSpec ==
    SectionFairInit /\ [][SectionNext]_vars /\ WF_vars(SectionNext)

\* the number of sections yielded so far
YieldCount == Cardinality({k \in 1..Len(shist) : Yields(k)})

\* some call of next() returned no item: the data is exhausted or invalid
SectionsEnded == \E k \in 1..Len(shist) : ~Yields(k)

\* every yielded section moved the cursor by at least 4 bytes, and at most
\* n/4 sections were yielded of the n bytes
SectionsAdvance ==
    /\ \A m \in 0..255 : core_len(m) >= 4 /\ core_len(m) <= 15
    /\ \A k \in 1..Len(shist) :
           Yields(k) =>
               /\ Yielded(k).core_len >= 4 /\ Yielded(k).core_len <= 15
               /\ shist[k].after.index >= shist[k].before.index + 4
    /\ 4 * YieldCount <= Len(sit.data)

\* C28: section iteration terminates: the core length is between 4 and 15
\* for every marker, every successful step advances the cursor by at least
\* 4 bytes, at most n/4 sections are yielded of a buffer of n bytes, and the
\* iterator reaches its end, exhausted or invalid, after finitely many calls.
C28_Terminates == []SectionsAdvance /\ <>SectionsEnded

\* a section of 6 bytes and one of 4 bytes were yielded, then the end
C28_Witness ==
    /\ Len(shist) = 3
    /\ YieldCount = 2
    /\ Yields(2) /\ Yielded(2).core_len = 4 /\ Len(Yielded(2).data) = 4
    /\ ~Yields(3)
    /\ sit.index = Len(sit.data) /\ Len(sit.data) = 10

-----------------------------------------------------------------------------
(* Rofl properties, segment ids *)

\* the list that the last call looked into, as it was before the call
ListBefore ==
    IF LastCall.op = "load_chunk" THEN LastCall.before.chunks
    ELSE LastCall.before.keyframes

\* the last call is load_chunk or load_keyframe with an id outside 1..=len
IdOutOfRange ==
    /\ IsSome(rhist.last)
    /\ LastCall.op \in {"load_chunk", "load_keyframe"}
    /\ LastCall.id \notin 1..Len(ListBefore)

\* C29: load_chunk and load_keyframe return NoData for every id that is not
\* in 1..=number of loaded chunks (keyframes), id 0 included, and leave every
\* segment's data unchanged.
C29_BadIdIsNoData ==
    IdOutOfRange =>
        /\ LastCall.outcome = "Err"
        /\ LastCall.err = "NoData"
        /\ LastCall.after = LastCall.before

\* the header records of the file's table, in table order
TableInFile ==
    [i \in 1..AnnouncedInFile |->
        Segment_from_raw_section(
            SliceFrom(rhist.file,
                      ReadLE(rhist.file, 284, 4) + SEGMENT_HEADER_LEN * (i - 1)))]

\* the header records of a list of segments
HeadersOf(list) == [i \in 1..Len(list) |-> [list[i] EXCEPT !.data = <<>>]]

IsChunkRecord(s) == s.segment_type = 1
IsKeyframeRecord(s) == s.segment_type = 2

\* C30: once from_slice or load_segments_heads has filled the lists, each
\* header record of the table is in exactly one of the two lists, in table
\* order; every element of chunks() satisfies is_chunk() and every element
\* of keyframes() satisfies is_keyframe().
C30_ListsByKind ==
    (RoflBuilt /\ ~RoflPanicked /\ ListedInRofl > 0) =>
        /\ ListedInRofl = Len(TableInFile)
        /\ HeadersOf(rofl.chunks) = SelectSeq(TableInFile, IsChunkRecord)
        /\ HeadersOf(rofl.keyframes) = SelectSeq(TableInFile, IsKeyframeRecord)
        /\ \A i \in 1..Len(rofl.chunks) : Segment_is_chunk(rofl.chunks[i])
        /\ \A i \in 1..Len(rofl.keyframes) : Segment_is_keyframe(rofl.keyframes[i])

====
